---------------------------- MODULE Spec2Model ----------------------------
(***************************************************************************)
(* Healing-loop state machine of the autonomous CI/CD healing agent        *)
(* (backend/agents/orchestrator.py) together with the pure engines it      *)
(* drives: the bug classifier, the fix-synthesis heuristics and the        *)
(* scoring function.  Text is modelled as sequences of one-character       *)
(* strings so that substring tests and the line edits are computed the way *)
(* the code computes them.                                                 *)
(***************************************************************************)
EXTENDS Integers, Sequences, FiniteSets, TLC

\* ------------------------------------------------------------------ bounds
\* Largest configured retry limit explored (RETRY_LIMIT is read from the
\* environment, main.py:26).
MaxRetryLimit == 2
\* Largest number of failure records one test run reports.
MaxFailures == 2
\* CI poll timeout and poll interval, in clock ticks (both are read from the
\* environment, ci_agent.py:22-23).
PollTimeout == 2
PollInterval == 1

\* -------------------------------------------------------------------- text
UpperChars == <<"A","B","C","D","E","F","G","H","I","J","K","L","M","N","O","P","Q","R","S","T","U","V","W","X","Y","Z">>
LowerChars == <<"a","b","c","d","e","f","g","h","i","j","k","l","m","n","o","p","q","r","s","t","u","v","w","x","y","z">>
DigitChars == <<"0","1","2","3","4","5","6","7","8","9">>

Range(s) == {s[i] : i \in 1..Len(s)}

\* str.lower() on one character
LowerChar(c) ==
    IF \E i \in 1..26 : UpperChars[i] = c
    THEN LowerChars[CHOOSE i \in 1..26 : UpperChars[i] = c]
    ELSE c

\* str.lower()
Lower(s) == [i \in 1..Len(s) |-> LowerChar(s[i])]

\* str.upper() on the characters whose upper case is one character
UpperCase(s) ==
    [i \in 1..Len(s) |->
        IF \E k \in 1..26 : LowerChars[k] = s[i]
        THEN UpperChars[CHOOSE k \in 1..26 : LowerChars[k] = s[i]]
        ELSE s[i]]

\* s[i:i+len(sub)] == sub, i a 1-based position
MatchesAt(s, sub, i) ==
    /\ i >= 1
    /\ i + Len(sub) - 1 <= Len(s)
    /\ \A k \in 1..Len(sub) : s[i + k - 1] = sub[k]

\* `sub in s`
Contains(s, sub) == \E i \in 1..(Len(s) - Len(sub) + 1) : MatchesAt(s, sub, i)

\* str.startswith / str.endswith
StartsWith(s, pre) == MatchesAt(s, pre, 1)
EndsWith(s, suf) == Len(suf) <= Len(s) /\ MatchesAt(s, suf, Len(s) - Len(suf) + 1)

\* the regex class \w on the characters the model uses
IsWordChar(c) == c \in Range(UpperChars) \cup Range(LowerChars) \cup Range(DigitChars) \cup {"_"}
IsQuote(c) == c \in {"'", "\""}

\* end (inclusive) of the maximal run of \w characters starting at i; i-1 if none
WordEnd(s, i) ==
    IF i > Len(s) \/ ~IsWordChar(s[i]) THEN i - 1
    ELSE CHOOSE j \in i..Len(s) :
            /\ \A k \in i..j : IsWordChar(s[k])
            /\ (j = Len(s) \/ ~IsWordChar(s[j + 1]))

\* ------------------------------------------------------------- bug classes
BugTypes == {"LINTING", "SYNTAX", "LOGIC", "TYPE_ERROR", "IMPORT", "INDENTATION"}

\* the tests of FailureParserAgent._classify_bug_type, on the lower-cased
\* error type and message, grouped by the category they return
ImportRule(error_lower, message_lower) ==
    \/ Contains(error_lower, <<"i","m","p","o","r","t","e","r","r","o","r">>) \/ Contains(error_lower, <<"m","o","d","u","l","e","n","o","t","f","o","u","n","d","e","r","r","o","r">>)
    \/ /\ Contains(message_lower, <<"i","m","p","o","r","t">>)
       /\ (Contains(message_lower, <<"c","a","n","n","o","t">>) \/ Contains(message_lower, <<"n","o"," ","m","o","d","u","l","e">>))
    \/ Contains(error_lower, <<"n","a","m","e","e","r","r","o","r">>) /\ Contains(message_lower, <<"i","s"," ","n","o","t"," ","d","e","f","i","n","e","d">>)

SyntaxRule(error_lower, message_lower) ==
    \/ Contains(error_lower, <<"s","y","n","t","a","x","e","r","r","o","r">>) \/ Contains(error_lower, <<"i","n","v","a","l","i","d","s","y","n","t","a","x">>)
    \/ Contains(message_lower, <<"s","y","n","t","a","x">>)

IndentationRule(error_lower, message_lower) ==
    \/ Contains(error_lower, <<"i","n","d","e","n","t","a","t","i","o","n","e","r","r","o","r">>) \/ Contains(error_lower, <<"t","a","b","e","r","r","o","r">>)
    \/ Contains(message_lower, <<"i","n","d","e","n","t">>) \/ Contains(message_lower, <<"u","n","e","x","p","e","c","t","e","d"," ","i","n","d","e","n","t">>)

TypeErrorRule(error_lower, message_lower) ==
    \/ Contains(error_lower, <<"t","y","p","e","e","r","r","o","r">>) \/ Contains(error_lower, <<"a","t","t","r","i","b","u","t","e","e","r","r","o","r">>)
    \/ /\ Contains(message_lower, <<"t","y","p","e">>)
       /\ (Contains(message_lower, <<"e","x","p","e","c","t","e","d">>) \/ Contains(message_lower, <<"g","o","t">>))

LintingRule(error_lower, message_lower) ==
    \/ Contains(message_lower, <<"l","i","n","t">>)
    \/ Contains(message_lower, <<"f","l","a","k","e","8">>)
    \/ Contains(message_lower, <<"p","y","l","i","n","t">>)

\* a classifier without the closing `return BugType.LOGIC`: it falls off the
\* end and returns None
ClassifyBugTypeNoFallback(error_type, message) ==
    LET error_lower == Lower(error_type)
        message_lower == Lower(message)
    IN  IF ImportRule(error_lower, message_lower) THEN "IMPORT"
        ELSE IF SyntaxRule(error_lower, message_lower) THEN "SYNTAX"
        ELSE IF IndentationRule(error_lower, message_lower) THEN "INDENTATION"
        ELSE IF TypeErrorRule(error_lower, message_lower) THEN "TYPE_ERROR"
        ELSE IF LintingRule(error_lower, message_lower) THEN "LINTING"
        ELSE "None"

\* a classifier that tests the syntax rules before the import rules
ClassifyBugTypeSyntaxFirst(error_type, message) ==
    LET error_lower == Lower(error_type)
        message_lower == Lower(message)
    IN  IF SyntaxRule(error_lower, message_lower) THEN "SYNTAX"
        ELSE IF ImportRule(error_lower, message_lower) THEN "IMPORT"
        ELSE IF IndentationRule(error_lower, message_lower) THEN "INDENTATION"
        ELSE IF TypeErrorRule(error_lower, message_lower) THEN "TYPE_ERROR"
        ELSE IF LintingRule(error_lower, message_lower) THEN "LINTING"
        ELSE "LOGIC"

\* FailureParserAgent._classify_bug_type: the first rule that holds decides
ClassifyBugType(error_type, message) ==
    LET error_lower == Lower(error_type)
        message_lower == Lower(message)
    IN  IF ImportRule(error_lower, message_lower) THEN "IMPORT"
        ELSE IF SyntaxRule(error_lower, message_lower) THEN "SYNTAX"
        ELSE IF IndentationRule(error_lower, message_lower) THEN "INDENTATION"
        ELSE IF TypeErrorRule(error_lower, message_lower) THEN "TYPE_ERROR"
        ELSE IF LintingRule(error_lower, message_lower) THEN "LINTING"
        ELSE "LOGIC"

\* FailureParserAgent.parse_failure: the failure with its bug type attached
ParseFailure(failure) ==
    [file |-> failure.file,
     line_number |-> failure.line_number,
     bug_type |-> ClassifyBugType(failure.error_type, failure.message),
     raw_message |-> failure.message,
     error_type |-> failure.error_type]

\* ------------------------------------------------------------ fix synthesis
\* FixAgent._generate_deterministic_fix: FIX_MAPPING
FixMapping ==
    [b \in BugTypes |->
        CASE b = "IMPORT" -> <<"a","d","d"," ","t","h","e"," ","m","i","s","s","i","n","g"," ","i","m","p","o","r","t"," ","s","t","a","t","e","m","e","n","t">>
          [] b = "SYNTAX" -> <<"a","d","d"," ","t","h","e"," ","m","i","s","s","i","n","g"," ","c","o","l","o","n"," ","a","t"," ","t","h","e"," ","c","o","r","r","e","c","t"," ","p","o","s","i","t","i","o","n">>
          [] b = "INDENTATION" -> <<"c","o","r","r","e","c","t"," ","t","h","e"," ","i","n","d","e","n","t","a","t","i","o","n">>
          [] b = "TYPE_ERROR" -> <<"c","o","r","r","e","c","t"," ","t","h","e"," ","t","y","p","e"," ","u","s","a","g","e">>
          [] b = "LOGIC" -> <<"c","o","r","r","e","c","t"," ","t","h","e"," ","r","e","t","u","r","n"," ","s","t","a","t","e","m","e","n","t"," ","l","o","g","i","c">>
          [] b = "LINTING" -> <<"r","e","m","o","v","e"," ","t","h","e"," ","u","n","u","s","e","d"," ","i","m","p","o","r","t"," ","s","t","a","t","e","m","e","n","t">>]

\* common_imports of FixAgent._generate_fix_with_heuristics
CommonImportNames ==
    {<<"p","y","t","e","s","t">>, <<"u","n","i","t","t","e","s","t">>, <<"o","s">>, <<"s","y","s">>, <<"j","s","o","n">>, <<"t","i","m","e">>,
     <<"d","a","t","e","t","i","m","e">>, <<"p","a","t","h">>, <<"c","a","l","c","u","l","a","t","o","r">>, <<"a","d","d">>, <<"m","u","l","t","i","p","l","y">>, <<"d","i","v","i","d","e">>}

CommonImports(name) ==
    CASE name = <<"p","y","t","e","s","t">> -> <<"i","m","p","o","r","t"," ","p","y","t","e","s","t">>
      [] name = <<"u","n","i","t","t","e","s","t">> -> <<"i","m","p","o","r","t"," ","u","n","i","t","t","e","s","t">>
      [] name = <<"o","s">> -> <<"i","m","p","o","r","t"," ","o","s">>
      [] name = <<"s","y","s">> -> <<"i","m","p","o","r","t"," ","s","y","s">>
      [] name = <<"j","s","o","n">> -> <<"i","m","p","o","r","t"," ","j","s","o","n">>
      [] name = <<"t","i","m","e">> -> <<"i","m","p","o","r","t"," ","t","i","m","e">>
      [] name = <<"d","a","t","e","t","i","m","e">> -> <<"f","r","o","m"," ","d","a","t","e","t","i","m","e"," ","i","m","p","o","r","t"," ","d","a","t","e","t","i","m","e">>
      [] name = <<"p","a","t","h">> -> <<"f","r","o","m"," ","p","a","t","h","l","i","b"," ","i","m","p","o","r","t"," ","P","a","t","h">>
      [] name = <<"c","a","l","c","u","l","a","t","o","r">> -> <<"f","r","o","m"," ","c","a","l","c","u","l","a","t","o","r"," ","i","m","p","o","r","t"," ","C","a","l","c","u","l","a","t","o","r">>
      [] name \in {<<"a","d","d">>, <<"m","u","l","t","i","p","l","y">>, <<"d","i","v","i","d","e">>} -> <<"f","r","o","m"," ","m","a","t","h","_","u","t","i","l","s"," ","i","m","p","o","r","t"," ","a","d","d",","," ","m","u","l","t","i","p","l","y",","," ","d","i","v","i","d","e">>

Whitespace == {" ", "\t", "\n", "\r"}

\* str.rstrip(), str.lstrip(), str.strip()
RStrip(s) ==
    IF \A i \in 1..Len(s) : s[i] \in Whitespace THEN <<>>
    ELSE SubSeq(s, 1, CHOOSE j \in 1..Len(s) :
                        s[j] \notin Whitespace /\ \A k \in (j + 1)..Len(s) : s[k] \in Whitespace)

LStrip(s) ==
    IF \A i \in 1..Len(s) : s[i] \in Whitespace THEN <<>>
    ELSE SubSeq(s, CHOOSE j \in 1..Len(s) :
                        s[j] \notin Whitespace /\ \A k \in 1..(j - 1) : s[k] \in Whitespace,
                Len(s))

Strip(s) == LStrip(RStrip(s))

\* str.count(c) for a single character
CountChar(s, c) == Cardinality({i \in 1..Len(s) : s[i] = c})

\* c * n
Repeat(c, n) == [i \in 1..n |-> c]

\* str.splitlines(keepends=True), line breaks being "\n"
RECURSIVE SplitLinesKeep(_)
SplitLinesKeep(s) ==
    IF s = <<>> THEN <<>>
    ELSE LET e == IF \E i \in 1..Len(s) : s[i] = "\n"
                  THEN CHOOSE i \in 1..Len(s) : s[i] = "\n" /\ \A k \in 1..(i - 1) : s[k] # "\n"
                  ELSE Len(s)
         IN  <<SubSeq(s, 1, e)>> \o SplitLinesKeep(SubSeq(s, e + 1, Len(s)))

\* ''.join(lines)
RECURSIVE JoinLines(_)
JoinLines(lines) ==
    IF lines = <<>> THEN <<>> ELSE Head(lines) \o JoinLines(Tail(lines))

\* re.search(r"no module named ['\"]?(\w+)['\"]?", s): group 1 of the leftmost
\* match, <<>> when there is none
NoModuleNamedStart(s, i) ==
    LET p == i + Len(<<"n","o"," ","m","o","d","u","l","e"," ","n","a","m","e","d"," ">>)
    IN  IF p <= Len(s) /\ IsQuote(s[p]) THEN p + 1 ELSE p

NoModuleNamedAt(s, i) ==
    /\ MatchesAt(s, <<"n","o"," ","m","o","d","u","l","e"," ","n","a","m","e","d"," ">>, i)
    /\ NoModuleNamedStart(s, i) <= Len(s)
    /\ IsWordChar(s[NoModuleNamedStart(s, i)])

NoModuleNamedGroup(s) ==
    IF \E i \in 1..Len(s) : NoModuleNamedAt(s, i)
    THEN LET i == CHOOSE i \in 1..Len(s) :
                    NoModuleNamedAt(s, i) /\ \A k \in 1..(i - 1) : ~NoModuleNamedAt(s, k)
             b == NoModuleNamedStart(s, i)
         IN  SubSeq(s, b, WordEnd(s, b))
    ELSE <<>>

\* re.search(r"name ['\"]?(\w+)['\"]? is not defined", s): group 1 of the
\* leftmost match, <<>> when there is none
NameNotDefinedStart(s, i) ==
    LET p == i + Len(<<"n","a","m","e"," ">>)
    IN  IF p <= Len(s) /\ IsQuote(s[p]) THEN p + 1 ELSE p

NameNotDefinedAt(s, i) ==
    /\ MatchesAt(s, <<"n","a","m","e"," ">>, i)
    /\ LET b == NameNotDefinedStart(s, i)
           e == WordEnd(s, b)
           q == IF e + 1 <= Len(s) /\ IsQuote(s[e + 1]) THEN e + 2 ELSE e + 1
       IN  /\ e >= b
           /\ MatchesAt(s, <<" ","i","s"," ","n","o","t"," ","d","e","f","i","n","e","d">>, q)

NameNotDefinedGroup(s) ==
    IF \E i \in 1..Len(s) : NameNotDefinedAt(s, i)
    THEN LET i == CHOOSE i \in 1..Len(s) :
                    NameNotDefinedAt(s, i) /\ \A k \in 1..(i - 1) : ~NameNotDefinedAt(s, k)
             b == NameNotDefinedStart(s, i)
         IN  SubSeq(s, b, WordEnd(s, b))
    ELSE <<>>

\* the compound-statement keywords tested by the missing-colon heuristic
ColonKeywords ==
    {<<"d","e","f"," ">>, <<"c","l","a","s","s"," ">>, <<"i","f"," ">>, <<"e","l","i","f"," ">>, <<"e","l","s","e">>, <<"f","o","r"," ">>, <<"w","h","i","l","e"," ">>,
     <<"t","r","y">>, <<"e","x","c","e","p","t">>, <<"f","i","n","a","l","l","y">>, <<"w","i","t","h"," ">>}

\* the import branch of _generate_fix_with_heuristics: `done` tells whether
\* the branch returned, `content` what it returned (<<>> for "")
HeuristicImport(original_content, error_lower, message_lower) ==
    IF \/ Contains(error_lower, <<"m","o","d","u","l","e","n","o","t","f","o","u","n","d","e","r","r","o","r">>)
       \/ (Contains(message_lower, <<"n","o"," ","m","o","d","u","l","e"," ","n","a","m","e","d">>) /\ ~Contains(message_lower, <<"i","m","p","o","r","t">>))
    THEN [done |-> TRUE, content |-> <<>>]
    ELSE IF /\ Contains(message_lower, <<"n","o"," ","m","o","d","u","l","e"," ","n","a","m","e","d">>)
            /\ Contains(message_lower, <<"i","m","p","o","r","t">>)
            /\ NoModuleNamedGroup(message_lower) # <<>>
    THEN [done |-> TRUE,
          content |-> <<"i","m","p","o","r","t"," ">> \o NoModuleNamedGroup(message_lower) \o <<"\n","\n">> \o original_content]
    ELSE IF /\ Contains(message_lower, <<"n","a","m","e">>)
            /\ Contains(message_lower, <<"i","s"," ","n","o","t"," ","d","e","f","i","n","e","d">>)
            /\ NameNotDefinedGroup(message_lower) \in CommonImportNames
    THEN [done |-> TRUE,
          content |-> CommonImports(NameNotDefinedGroup(message_lower)) \o <<"\n","\n">> \o original_content]
    ELSE [done |-> FALSE, content |-> <<>>]

\* the syntax branch
HeuristicSyntax(lines, line_number, message_lower) ==
    IF ~(line_number > 0 /\ line_number <= Len(lines))
    THEN [done |-> FALSE, content |-> <<>>]
    ELSE LET line == lines[line_number]
         IN  IF /\ (Contains(message_lower, <<"e","x","p","e","c","t","e","d"," ","'",":","'">>) \/ Contains(message_lower, <<"i","n","v","a","l","i","d"," ","s","y","n","t","a","x">>))
                /\ Strip(line) # <<>>
                /\ ~EndsWith(RStrip(line), <<":">>)
                /\ \E keyword \in ColonKeywords : Contains(line, keyword)
             THEN [done |-> TRUE,
                   content |-> JoinLines([lines EXCEPT ![line_number] = RStrip(line) \o <<":","\n">>])]
             ELSE IF /\ (Contains(message_lower, <<"u","n","c","l","o","s","e","d">>) \/ Contains(message_lower, <<"u","n","m","a","t","c","h","e","d">>))
                     /\ CountChar(line, "(") - CountChar(line, ")") > 0
             THEN [done |-> TRUE,
                   content |-> JoinLines([lines EXCEPT ![line_number] =
                                   RStrip(line) \o Repeat(")", CountChar(line, "(") - CountChar(line, ")")) \o <<"\n">>])]
             ELSE [done |-> FALSE, content |-> <<>>]

\* the indentation branch
HeuristicIndentation(lines, line_number) ==
    IF line_number > 0 /\ line_number <= Len(lines) /\ line_number > 1
    THEN LET prev_line == lines[line_number - 1]
             prev_indent == Len(prev_line) - Len(LStrip(prev_line))
             current_content == LStrip(lines[line_number])
         IN  [done |-> TRUE,
              content |-> JoinLines([lines EXCEPT ![line_number] = Repeat(" ", prev_indent) \o current_content])]
    ELSE [done |-> FALSE, content |-> <<>>]

\* FixAgent._generate_fix_with_heuristics: the candidate content, <<>> for ""
GenerateFixWithHeuristics(original_content, line_number, bug_type, error_type, message) ==
    LET lines == SplitLinesKeep(original_content)
        message_lower == Lower(message)
        error_lower == Lower(error_type)
        imp == IF bug_type = "IMPORT" \/ Contains(error_lower, <<"i","m","p","o","r","t">>)
               THEN HeuristicImport(original_content, error_lower, message_lower)
               ELSE [done |-> FALSE, content |-> <<>>]
        syn == IF bug_type = "SYNTAX"
               THEN HeuristicSyntax(lines, line_number, message_lower)
               ELSE [done |-> FALSE, content |-> <<>>]
        ind == IF bug_type = "INDENTATION"
               THEN HeuristicIndentation(lines, line_number)
               ELSE [done |-> FALSE, content |-> <<>>]
    IN  IF imp.done THEN imp.content
        ELSE IF syn.done THEN syn.content
        ELSE IF ind.done THEN ind.content
        ELSE <<>>

\* FixAgent._generate_fixed_content
GenerateFixedContent(original_content, line_number, bug_type, error_type, message) ==
    GenerateFixWithHeuristics(original_content, line_number, bug_type, error_type, message)

\* an apply_fix that skips ast.parse and writes whatever was generated
ApplyFixNoValidation(present, original_content, line_number, fixed_content, io) ==
    IF ~present THEN [applied |-> FALSE, raises |-> FALSE, content |-> original_content]
    ELSE IF ~io.read_ok THEN [applied |-> FALSE, raises |-> FALSE, content |-> original_content]
    ELSE IF line_number < 1 \/ line_number > Len(SplitLinesKeep(original_content))
    THEN [applied |-> FALSE, raises |-> FALSE, content |-> original_content]
    ELSE IF fixed_content = <<>> \/ fixed_content = original_content
    THEN [applied |-> FALSE, raises |-> FALSE, content |-> original_content]
    ELSE IF io.write = "ok" THEN [applied |-> TRUE, raises |-> FALSE, content |-> fixed_content]
    ELSE IF io.write = "open_failed"
    THEN [applied |-> FALSE, raises |-> FALSE, content |-> original_content]
    ELSE [applied |-> FALSE, raises |-> FALSE, content |-> <<>>]

\* an apply_fix whose read and write are not wrapped in try/except
ApplyFixReraise(present, original_content, line_number, fixed_content, io) ==
    IF ~present THEN [applied |-> FALSE, raises |-> FALSE, content |-> original_content]
    ELSE IF ~io.read_ok THEN [applied |-> FALSE, raises |-> TRUE, content |-> original_content]
    ELSE IF line_number < 1 \/ line_number > Len(SplitLinesKeep(original_content))
    THEN [applied |-> FALSE, raises |-> FALSE, content |-> original_content]
    ELSE IF fixed_content = <<>> \/ fixed_content = original_content
    THEN [applied |-> FALSE, raises |-> FALSE, content |-> original_content]
    ELSE IF ~io.parse_ok THEN [applied |-> FALSE, raises |-> FALSE, content |-> original_content]
    ELSE IF io.write = "ok" THEN [applied |-> TRUE, raises |-> FALSE, content |-> fixed_content]
    ELSE IF io.write = "open_failed"
    THEN [applied |-> FALSE, raises |-> TRUE, content |-> original_content]
    ELSE [applied |-> FALSE, raises |-> TRUE, content |-> <<>>]

\* FixAgent.apply_fix on the content of the target file, fixed_content being
\* what _generate_fixed_content returned for it.  `present` tells whether the
\* file exists; io holds what the file system and ast.parse answer: read_ok,
\* parse_ok, and write in {"ok", "open_failed", "write_failed"} (a write that
\* fails after open(..., 'w') has truncated the file leaves it empty).  The
\* result tells whether True was returned, whether an exception left the
\* function, and the content of the file afterwards.
ApplyFix(present, original_content, line_number, fixed_content, io) ==
    IF ~present THEN [applied |-> FALSE, raises |-> FALSE, content |-> original_content]
    ELSE IF ~io.read_ok THEN [applied |-> FALSE, raises |-> FALSE, content |-> original_content]
    ELSE IF line_number < 1 \/ line_number > Len(SplitLinesKeep(original_content))
    THEN [applied |-> FALSE, raises |-> FALSE, content |-> original_content]
    ELSE IF fixed_content = <<>> \/ fixed_content = original_content
    THEN [applied |-> FALSE, raises |-> FALSE, content |-> original_content]
    ELSE IF ~io.parse_ok THEN [applied |-> FALSE, raises |-> FALSE, content |-> original_content]
    ELSE IF io.write = "ok" THEN [applied |-> TRUE, raises |-> FALSE, content |-> fixed_content]
    ELSE IF io.write = "open_failed"
    THEN [applied |-> FALSE, raises |-> FALSE, content |-> original_content]
    ELSE [applied |-> FALSE, raises |-> FALSE, content |-> <<>>]

IOOutcomes ==
    [read_ok : BOOLEAN, parse_ok : BOOLEAN, write : {"ok", "open_failed", "write_failed"}]

\* the decimal digits of n >= 0
RECURSIVE Decimal(_)
Decimal(n) ==
    IF n < 10 THEN <<DigitChars[n + 1]>>
    ELSE Decimal(n \div 10) \o <<DigitChars[(n % 10) + 1]>>

\* str(n), as the f-string formats an int
IntStr(n) == IF n < 0 THEN <<"-">> \o Decimal(0 - n) ELSE Decimal(n)

\* BugType.value as text
BugTypeValue(b) ==
    CASE b = "LINTING" -> <<"L","I","N","T","I","N","G">>
      [] b = "SYNTAX" -> <<"S","Y","N","T","A","X">>
      [] b = "LOGIC" -> <<"L","O","G","I","C">>
      [] b = "TYPE_ERROR" -> <<"T","Y","P","E","_","E","R","R","O","R">>
      [] b = "IMPORT" -> <<"I","M","P","O","R","T">>
      [] b = "INDENTATION" -> <<"I","N","D","E","N","T","A","T","I","O","N">>

Arrow == "->"

\* the strict_output f-string of FixAgent.generate_fix; Arrow stands for the
\* one character U+2192
StrictOutput(file, line_number, bug_type) ==
    BugTypeValue(bug_type) \o <<" ","e","r","r","o","r"," ","i","n"," ">> \o file \o <<" ","l","i","n","e"," ">> \o IntStr(line_number)
        \o <<" ", Arrow, " ">> \o <<"F","i","x",":"," ">> \o FixMapping[bug_type]

\* end (inclusive) of the maximal run of characters of class cls starting at i
RunEnd(s, i, cls) ==
    IF i > Len(s) \/ s[i] \notin cls THEN i - 1
    ELSE CHOOSE j \in i..Len(s) :
            /\ \A k \in i..j : s[k] \in cls
            /\ (j = Len(s) \/ s[j + 1] \notin cls)

\* `.+$`: a non-empty run without line breaks up to the end of s (or up to one
\* final line break)
DotPlusToEnd(s, i) ==
    LET last == IF Len(s) >= 1 /\ s[Len(s)] = "\n" THEN Len(s) - 1 ELSE Len(s)
    IN  i <= last /\ \A k \in i..last : s[k] # "\n"

\* FixAgent._validate_strict_output_format:
\* re.match(r"^[A-Z_]+ error in .+ line \d+ -> Fix: .+$", s)
StrictOutputMatches(s) ==
    LET a == RunEnd(s, 1, Range(UpperChars) \cup {"_"})
    IN  /\ a >= 1
        /\ MatchesAt(s, <<" ","e","r","r","o","r"," ","i","n"," ">>, a + 1)
        /\ \E b \in (a + 11)..Len(s) :
              /\ \A k \in (a + 11)..b : s[k] # "\n"
              /\ MatchesAt(s, <<" ","l","i","n","e"," ">>, b + 1)
              /\ LET d == RunEnd(s, b + 7, Range(DigitChars))
                 IN  /\ d >= b + 7
                     /\ MatchesAt(s, <<" ", Arrow, " ">> \o <<"F","i","x",":"," ">>, d + 1)
                     /\ DotPlusToEnd(s, d + 9)

\* commit_message of FixAgent.generate_fix
FixCommitMessage(file, bug_type) ==
    <<"[","A","I","-","A","G","E","N","T","]"," ","F","i","x"," ">> \o Lower(BugTypeValue(bug_type)) \o <<" ","i","s","s","u","e"," ","i","n"," ">> \o file

\* a generate_fix that returns its descriptor without validating it
GenerateFixUnvalidated(file, line_number, bug_type, message) ==
    IF bug_type \notin BugTypes
    THEN [raises |-> TRUE]
    ELSE [raises |-> FALSE,
          file |-> file,
          line_number |-> line_number,
          bug_type |-> bug_type,
          commit_message |-> FixCommitMessage(file, bug_type),
          strict_output |-> StrictOutput(file, line_number, bug_type)]

\* a generate_fix that words the descriptor after the failure message
GenerateFixSniffing(file, line_number, bug_type, message) ==
    IF bug_type \notin BugTypes \/ ~StrictOutputMatches(StrictOutput(file, line_number, bug_type))
    THEN [raises |-> TRUE]
    ELSE [raises |-> FALSE,
          file |-> file,
          line_number |-> line_number,
          bug_type |-> bug_type,
          commit_message |-> FixCommitMessage(file, bug_type),
          strict_output |-> StrictOutput(file, line_number, bug_type) \o <<":"," ">> \o message]

\* FixAgent.generate_fix: the proposal, or raises; the failure message is a
\* parameter the body never reads
GenerateFix(file, line_number, bug_type, message) ==
    IF bug_type \notin BugTypes \/ ~StrictOutputMatches(StrictOutput(file, line_number, bug_type))
    THEN [raises |-> TRUE]
    ELSE [raises |-> FALSE,
          file |-> file,
          line_number |-> line_number,
          bug_type |-> bug_type,
          commit_message |-> FixCommitMessage(file, bug_type),
          strict_output |-> StrictOutput(file, line_number, bug_type)]

\* GitAgent.COMMIT_PREFIX
CommitPrefix == <<"[","A","I","-","A","G","E","N","T","]">>

\* a prefix check that accepts the prefix anywhere in the message
ValidateCommitPrefixAnywhere(commit_message) == Contains(commit_message, CommitPrefix)

\* GitAgent.validate_commit_prefix
ValidateCommitPrefix(commit_message) == StartsWith(commit_message, CommitPrefix)

\* ----------------------------------------------------------------- scoring
\* a calculate_score without the floor at zero
CalculateScoreNoFloor(execution_time_seconds, commit_count) ==
    LET base_score == 100
        time_bonus == IF execution_time_seconds < 300 THEN 10 ELSE 0
        commit_penalty == IF commit_count > 20 THEN (commit_count - 20) * 2 ELSE 0
    IN  [base_score |-> base_score,
         time_bonus |-> time_bonus,
         commit_penalty |-> commit_penalty,
         final_score |-> base_score + time_bonus - commit_penalty]

\* ScoreAgent.calculate_score
CalculateScore(execution_time_seconds, commit_count) ==
    LET base_score == 100
        time_bonus == IF execution_time_seconds < 300 THEN 10 ELSE 0
        commit_penalty == IF commit_count > 20 THEN (commit_count - 20) * 2 ELSE 0
        total == base_score + time_bonus - commit_penalty
    IN  [base_score |-> base_score,
         time_bonus |-> time_bonus,
         commit_penalty |-> commit_penalty,
         final_score |-> IF total > 0 THEN total ELSE 0]

\* ------------------------------------------------------ the run's inputs
\* RunStatus values (models.py)
RUNNING == "running"
PASSED == "PASSED"
FAILED == "FAILED"

\* kinds of repo_url: a file:// working copy, a github.com remote
RepoUrls == {"file", "github"}

\* a variant of IsLocalRepo that never recognises a local target
IsLocalRepoNever(url) == FALSE

\* str(payload.repo_url).startswith("file://")
IsLocalRepo(url) == url = "file"

\* CIAgent._extract_owner_repo(repo_url) is None
OwnerRepoMissing(url) == url # "github"

\* `not self.github_token` in CIAgent: GitAgent() is constructed first and
\* raises when GITHUB_TOKEN is unset, so an orchestrator only exists with a token
TokenMissing == FALSE

AppPy == <<"a","p","p",".","p","y">>
ConftestPy == <<"c","o","n","f","t","e","s","t",".","p","y">>

\* the checked-out working tree: file name -> content
InitialTree == [f \in {AppPy} |-> <<"x","\n"," "," ","y","\n">>]

\* TestFailure records a test run can report (test_agent.py:14-20)
FailureTable ==
    <<[file |-> AppPy, line_number |-> 1,
       error_type |-> <<"N","a","m","e","E","r","r","o","r">>, message |-> <<"n","a","m","e"," ","'","o","s","'"," ","i","s"," ","n","o","t"," ","d","e","f","i","n","e","d">>],
      [file |-> AppPy, line_number |-> 2,
       error_type |-> <<"A","s","s","e","r","t","i","o","n","E","r","r","o","r">>, message |-> <<"a","s","s","e","r","t"," ","1"," ","=","="," ","2">>],
      [file |-> ConftestPy, line_number |-> 1,
       error_type |-> <<"M","o","d","u","l","e","N","o","t","F","o","u","n","d","E","r","r","o","r">>, message |-> <<"N","o"," ","m","o","d","u","l","e"," ","n","a","m","e","d"," ","'","r","e","q","u","e","s","t","s","'">>]>>

\* parse_failure and generate_fix of every record of FailureTable
ParsedTable == [i \in DOMAIN FailureTable |-> ParseFailure(FailureTable[i])]
ProposalTable ==
    [i \in DOMAIN FailureTable |->
        GenerateFix(ParsedTable[i].file, ParsedTable[i].line_number, ParsedTable[i].bug_type,
                    ParsedTable[i].raw_message)]

\* what _parse_pytest_output can return: up to MaxFailures records with
\* pairwise different (file, line) keys
ParsedIds == 1..2
ParseResults ==
    {s \in UNION {[1..n -> ParsedIds] : n \in 0..MaxFailures} :
        \A i, j \in 1..Len(s) : i # j => s[i] # s[j]}

\* what _parse_setup_error can return: 0 for None, else a record of FailureTable
SetupResults == {0, 3}

\* pytest exit codes: 0 passed, 1 tests failed, 4 setup/usage error
ReturnCodes == {0, 1, 4}

\* a run_tests that returns an empty failure list instead of raising
RunTestsEmptyResult(has_test_files, sandbox_ok, returncode, setup_failure, parsed) ==
    IF ~has_test_files THEN [raises |-> TRUE, passed |-> FALSE, failures |-> <<>>]
    ELSE IF ~sandbox_ok THEN [raises |-> TRUE, passed |-> FALSE, failures |-> <<>>]
    ELSE IF returncode = 0 THEN [raises |-> FALSE, passed |-> TRUE, failures |-> <<>>]
    ELSE IF returncode = 4 /\ setup_failure # 0
    THEN [raises |-> FALSE, passed |-> FALSE, failures |-> <<setup_failure>>]
    ELSE [raises |-> FALSE, passed |-> FALSE, failures |-> parsed]

\* TestAgent.run_tests: test discovery, the sandbox call, and the extraction
RunTests(has_test_files, sandbox_ok, returncode, setup_failure, parsed) ==
    IF ~has_test_files THEN [raises |-> TRUE, passed |-> FALSE, failures |-> <<>>]
    ELSE IF ~sandbox_ok THEN [raises |-> TRUE, passed |-> FALSE, failures |-> <<>>]
    ELSE IF returncode = 0 THEN [raises |-> FALSE, passed |-> TRUE, failures |-> <<>>]
    ELSE IF returncode = 4 /\ setup_failure # 0
    THEN [raises |-> FALSE, passed |-> FALSE, failures |-> <<setup_failure>>]
    ELSE IF parsed = <<>> THEN [raises |-> TRUE, passed |-> FALSE, failures |-> <<>>]
    ELSE [raises |-> FALSE, passed |-> FALSE, failures |-> parsed]

\* what CIAgent._fetch_latest_workflow_run can answer: None, or (status, conclusion)
FetchResults ==
    {<<"none">>, <<"queued", "none">>, <<"in_progress", "none">>,
     <<"completed", "success">>, <<"completed", "failure">>, <<"", "none">>}

PendingStatuses == {"queued", "in_progress", "waiting", "requested", "pending"}

\* elapsed wall-clock seconds a run can measure
ElapsedSamples == {299, 300}

\* ------------------------------------------------------------------- state
VARIABLES
    pc,             \* position of execute_run
    retry_limit,    \* OrchestratorAgent.retry_limit
    repo_url,       \* payload.repo_url (its kind)
    status,         \* run_state.status
    finished,       \* run_state.finished_at is set
    results,        \* run_state.results
    iteration,      \* the loop variable of the healing loop
    test_result,    \* test_result of the current iteration
    fidx,           \* index of the failure being processed
    fixes_applied,  \* fixes_applied of the current iteration
    ci_status,      \* ci_status.status of the last poll
    files,          \* working tree: file name -> content
    clock,          \* time.monotonic() inside poll_workflow_status, 0 outside
    deadline,       \* deadline inside poll_workflow_status, 0 outside
    last_poll,      \* history: how the poll in progress got where it is
    persisted,      \* calls of _persist_results and the writes they completed
    calls,          \* history: collaborator calls made so far
    test_log,       \* history: per run_tests call, its outcome and whether the run
                    \* exited non-zero with no failure record found in its output
    at_raise,       \* history: the report when the exception handler was entered
    since_fix,      \* history: what has confirmed the last applied fix
    ci_iter,        \* history: iteration of the last poll that returned
    engine_in,      \* arguments of an engine called on its own
    engine_out,     \* what that call returned
    st_runs,        \* InMemoryRunStore._runs: run id -> RunState object, "none" if absent
    st_lock,        \* InMemoryRunStore._lock: the thread holding it, or "free"
    st_pc,          \* per thread: where it is in its call
    st_op,          \* per thread: the call it is making
    st_ret,         \* per thread: what its last get returned
    st_done,        \* history: per run id, the object of the latest completed upsert
    st_req,         \* per thread: the request body it is handling, if any
    scheduled,      \* run ids handed to background_tasks.add_task(execute_run, ...)
    disk,           \* report files: path -> the run whose report it holds, "none" if absent
    disk_writers    \* history: path -> the runs that have written it

vars == <<pc, retry_limit, repo_url, status, finished, results, iteration, test_result,
          fidx, fixes_applied, ci_status, files, clock, deadline, last_poll, persisted,
          calls, test_log, at_raise, since_fix, ci_iter, engine_in, engine_out,
          st_runs, st_lock, st_pc, st_op, st_ret, st_done, st_req, scheduled, disk,
          disk_writers>>

config == <<retry_limit, repo_url>>
poll_vars == <<clock, deadline, last_poll>>
iter_vars == <<iteration, test_result, fidx, fixes_applied>>

engine_vars == <<engine_in, engine_out>>
service_vars == <<st_runs, st_lock, st_pc, st_op, st_ret, st_done, st_req, scheduled, disk,
                  disk_writers>>

\* no report has been handed to _persist_results yet
NothingPersisted == [emitted |-> 0, run_file |-> 0, root_file |-> 0]

\* the threads of the service process and the runs they execute
Threads == {"t1", "t2"}
RunIds == {"r1", "r2"}
RunOf(t) == IF t = "t1" THEN "r1" ELSE "r2"

\* RunState objects
RunStates == {"s1", "s2"}

\* the files _persist_results writes for a run: results/<run_id>.json and
\* <project_root>/results.json
RunResultFile(run_id) == <<"results", run_id>>
RootResultFile == <<"results.json">>
ReportFiles == {RunResultFile(r) : r \in RunIds} \cup {RootResultFile}

Idle == [op |-> "none"]

\* the thread is handling no request
NoRequest == [repo_url |-> <<"none">>]

\* a process that has just created its InMemoryRunStore, with no report on disk
ServiceIdle ==
    /\ st_runs = [r \in RunIds |-> "none"]
    /\ st_lock = "free"
    /\ st_pc = [t \in Threads |-> "idle"]
    /\ st_op = [t \in Threads |-> Idle]
    /\ st_ret = [t \in Threads |-> "none"]
    /\ st_done = [r \in RunIds |-> "none"]
    /\ st_req = [t \in Threads |-> NoRequest]
    /\ scheduled = {}
    /\ disk = [f \in ReportFiles |-> "none"]
    /\ disk_writers = [f \in ReportFiles |-> {}]

NoRaise == [raised |-> FALSE]

\* no poll in progress
NoPoll == [kind |-> "none", run |-> <<"none">>, at |-> 0, deadline |-> 0]
NoCall == [engine |-> "none"]

\* the ResultsSchema start_run builds
NewResults(limit) ==
    [total_failures |-> 0, total_fixes |-> 0, iterations_used |-> 0,
     retry_limit |-> limit, commits |-> 0, final_status |-> RUNNING,
     execution_time_seconds |-> 0, score |-> 0, score_base |-> 100,
     score_time_bonus |-> 0, score_commit_penalty |-> 0,
     fixes |-> <<>>, ci_timeline |-> <<>>]

\* OrchestratorAgent.start_run: the RunState a run starts from, execute_run
\* having found it in the run store
Init ==
    /\ pc = "clone"
    /\ retry_limit \in 1..MaxRetryLimit
    /\ repo_url \in RepoUrls
    /\ status = RUNNING
    /\ finished = FALSE
    /\ results = NewResults(retry_limit)
    /\ iteration = 0
    /\ test_result = [passed |-> FALSE, failures |-> <<>>]
    /\ fidx = 0
    /\ fixes_applied = 0
    /\ ci_status = "none"
    /\ files = InitialTree
    /\ clock = 0
    /\ deadline = 0
    /\ last_poll = NoPoll
    /\ persisted = NothingPersisted
    /\ calls = [tests |-> 0, fixes |-> 0, commits |-> 0, created |-> 0, pushes |-> 0,
                polls |-> 0]
    /\ test_log = <<>>
    /\ at_raise = NoRaise
    /\ since_fix = [tests_passed |-> TRUE, ci_passed |-> TRUE]
    /\ ci_iter = 0
    /\ engine_in = NoCall
    /\ engine_out = NoCall
    /\ ServiceIdle

\* ------------------------------------------------- execute_run, step by step
\* a loop that runs one iteration too many: range(1, self.retry_limit + 2)
LoopContinuesOffByOne(it, limit) == it <= limit

\* range(1, self.retry_limit + 1): another iteration follows iteration `it`
LoopContinues(it, limit) == it < limit

\* a timeline entry that ignores the poll result
TimelineStatusPassed(ci) == PASSED

\* the status written to a timeline entry for a poll result
TimelineStatus(ci) == IF ci = "PASSED" THEN PASSED ELSE FAILED

\* a CI check that takes every poll result for a success
CIPassedAlways(ci) == TRUE

\* `if ci_status.status == "PASSED"`
CIPassed(ci) == ci = "PASSED"

\* a fix status that ignores the result of apply_fix
FixStatusOfFailed(fix_applied) == "FAILED"

\* `FixStatus.FIXED if fix_applied else FixStatus.FAILED`
FixStatusOf(fix_applied) == IF fix_applied THEN "FIXED" ELSE "FAILED"

\* a finalization that overwrites a PASSED status
AfterLoopStatusAlways(s) == FAILED

\* a finalization that never writes FAILED
AfterLoopStatusKeep(s) == s

\* `if run_state.status != RunStatus.PASSED: run_state.status = RunStatus.FAILED`
AfterLoopStatus(s) == IF s # PASSED THEN FAILED ELSE s

\* a handler that leaves the status as it found it
ExceptStatusRunning == RUNNING

\* the status the exception handler writes
ExceptStatus == FAILED

\* a sleep during which the clock stands still
SleepNoAdvance(now) == now

\* time.sleep(self.poll_interval) seen on the monotonic clock
SleepAdvance(now) == now + PollInterval

\* a failure count that adds one per failing test run
CountFailuresOnce(total_failures, failures) == total_failures + 1

\* `run_state.results.total_failures += len(test_result.failures)`
CountFailures(total_failures, failures) == total_failures + Len(failures)

\* a timeline entry numbered by the attempts left instead of the iteration
TimelineRecordCountdown(it, st) == [iteration |-> 3 - it, status |-> st]

\* CITimelineRecord(iteration=iteration, status=...), the timestamp left out
TimelineRecord(it, st) == [iteration |-> it, status |-> st]

\* repo_agent.analyze_repository(...)
Clone ==
    /\ pc = "clone"
    /\ \E ok \in BOOLEAN : pc' = IF ok THEN "checkout" ELSE "except"
    /\ UNCHANGED <<service_vars, engine_vars, config, status, finished, results, iter_vars, ci_status, files,
                   poll_vars, persisted, calls, test_log, at_raise, since_fix, ci_iter>>

\* git_agent.checkout_or_create_branch(...); iterations_used = 0
Checkout ==
    /\ pc = "checkout"
    /\ \E ok \in BOOLEAN :
          IF ok
          THEN /\ results' = [results EXCEPT !.iterations_used = 0]
               /\ pc' = "loop"
          ELSE /\ pc' = "except"
               /\ UNCHANGED results
    /\ UNCHANGED <<service_vars, engine_vars, config, status, finished, iter_vars, ci_status, files,
                   poll_vars, persisted, calls, test_log, at_raise, since_fix, ci_iter>>

\* the head of `for iteration in range(1, self.retry_limit + 1)` with the two
\* statements that open the body
LoopHead ==
    /\ pc = "loop"
    /\ IF LoopContinues(iteration, retry_limit)
       THEN /\ iteration' = iteration + 1
            /\ results' = [results EXCEPT !.iterations_used = iteration + 1]
            /\ pc' = "run_tests"
       ELSE /\ pc' = "after_loop"
            /\ UNCHANGED <<iteration, results>>
    /\ UNCHANGED <<service_vars, engine_vars, config, status, finished, test_result, fidx, fixes_applied, ci_status,
                   files, poll_vars, persisted, calls, test_log, at_raise, since_fix,
                   ci_iter>>

\* test_agent.run_tests(...) and the branch on test_result.passed
RunTestsStep ==
    /\ pc = "run_tests"
    /\ calls' = [calls EXCEPT !.tests = @ + 1]
    /\ \E has_test_files \in BOOLEAN, sandbox_ok \in BOOLEAN, returncode \in ReturnCodes,
          setup_failure \in SetupResults, parsed \in ParseResults :
          LET r == RunTests(has_test_files, sandbox_ok, returncode, setup_failure, parsed)
              nothing_extracted ==
                  /\ has_test_files /\ sandbox_ok /\ returncode # 0
                  /\ ~(returncode = 4 /\ setup_failure # 0)
                  /\ parsed = <<>>
              entry(o) == [outcome |-> o, nothing_extracted |-> nothing_extracted]
          IN  IF r.raises
              THEN /\ pc' = "except"
                   /\ test_log' = Append(test_log, entry("raise"))
                   /\ UNCHANGED <<test_result, results, fidx, fixes_applied, since_fix>>
              ELSE IF r.passed
              THEN /\ test_result' = [passed |-> TRUE, failures |-> <<>>]
                   /\ test_log' = Append(test_log, entry("pass"))
                   /\ since_fix' = [since_fix EXCEPT !.tests_passed = TRUE]
                   /\ pc' = IF IsLocalRepo(repo_url) THEN "local_status" ELSE "push"
                   /\ UNCHANGED <<results, fidx, fixes_applied>>
              ELSE /\ test_result' = [passed |-> FALSE, failures |-> r.failures]
                   /\ test_log' = Append(test_log, entry("fail"))
                   /\ results' = [results EXCEPT !.total_failures = CountFailures(@, r.failures)]
                   /\ fixes_applied' = 0
                   /\ fidx' = 1
                   /\ pc' = IF Len(r.failures) = 0 THEN "commit" ELSE "fix"
                   /\ UNCHANGED since_fix
    /\ UNCHANGED <<service_vars, engine_vars, config, status, finished, iteration, ci_status, files, poll_vars,
                   persisted, at_raise, ci_iter>>

\* local target: run_state.status = RunStatus.PASSED
LocalStatus ==
    /\ pc = "local_status"
    /\ status' = PASSED
    /\ pc' = "local_final"
    /\ UNCHANGED <<service_vars, engine_vars, config, finished, results, iter_vars, ci_status, files, poll_vars,
                   persisted, calls, test_log, at_raise, since_fix, ci_iter>>

\* local target: final_status = PASSED, the timeline entry, break
LocalFinal ==
    /\ pc = "local_final"
    /\ results' = [results EXCEPT
                      !.final_status = PASSED,
                      !.ci_timeline = Append(@, TimelineRecord(iteration, PASSED))]
    /\ pc' = "after_loop"
    /\ UNCHANGED <<service_vars, engine_vars, config, status, finished, iter_vars, ci_status, files, poll_vars,
                   persisted, calls, test_log, at_raise, since_fix, ci_iter>>

\* one pass of `for failure in test_result.failures`: parse_failure, apply_fix,
\* generate_fix, enforce_commit_prefix and the FixRecord
FixStep ==
    /\ pc = "fix"
    /\ fidx <= Len(test_result.failures)
    /\ calls' = [calls EXCEPT !.fixes = @ + 1]
    /\ LET parsed == ParsedTable[test_result.failures[fidx]]
           proposal == ProposalTable[test_result.failures[fidx]]
           present == parsed.file \in DOMAIN files
           original_content == IF present THEN files[parsed.file] ELSE <<>>
           fixed_content == GenerateFixedContent(original_content, parsed.line_number,
                                                 parsed.bug_type, parsed.error_type,
                                                 parsed.raw_message)
       IN  \E io \in IOOutcomes :
              LET fix == ApplyFix(present, original_content, parsed.line_number,
                                  fixed_content, io)
              IN  /\ files' = IF present THEN [files EXCEPT ![parsed.file] = fix.content]
                              ELSE files
                  /\ IF \/ fix.raises
                        \/ proposal.raises
                        \/ ~ValidateCommitPrefix(proposal.commit_message)
                     THEN /\ pc' = "except"
                          /\ UNCHANGED <<results, fixes_applied, fidx, since_fix>>
                     ELSE /\ fixes_applied' = IF fix.applied THEN fixes_applied + 1
                                              ELSE fixes_applied
                          /\ results' = [results EXCEPT !.fixes = Append(@,
                                            [file |-> proposal.file,
                                             bug_type |-> proposal.bug_type,
                                             line_number |-> proposal.line_number,
                                             status |-> FixStatusOf(fix.applied)])]
                          /\ since_fix' = IF fix.applied
                                          THEN [tests_passed |-> FALSE, ci_passed |-> FALSE]
                                          ELSE since_fix
                          /\ fidx' = fidx + 1
                          /\ pc' = IF fidx = Len(test_result.failures) THEN "commit"
                                   ELSE "fix"
    /\ UNCHANGED <<service_vars, engine_vars, config, status, finished, iteration, test_result, ci_status,
                   poll_vars, persisted, test_log, at_raise, ci_iter>>

\* what git_agent.commit_all_changes can do: raise, commit and return True,
\* or find nothing staged and return False
CommitOutcomes == {"raise", "committed", "clean"}

\* a count that goes up by the fixes of the commit, taken to be two
CommitsAfterPerFix(commits, committed) == IF committed THEN commits + 2 ELSE commits

\* a count of attempted commits: one more whatever commit_all_changes returned
CommitsAfterAttempt(commits, committed) == commits + 1

\* `if committed: run_state.results.commits += 1`
CommitsAfter(commits, committed) == IF committed THEN commits + 1 ELSE commits

\* `if fixes_applied > 0: committed = git_agent.commit_all_changes(...)` and
\* `if committed: commits += 1`
CommitStep ==
    /\ pc = "commit"
    /\ IF fixes_applied > 0
       THEN \E outcome \in CommitOutcomes :
               /\ calls' = [calls EXCEPT !.commits = @ + 1,
                                         !.created = IF outcome = "committed" THEN @ + 1
                                                     ELSE @]
               /\ IF outcome = "raise"
                  THEN /\ pc' = "except"
                       /\ UNCHANGED results
                  ELSE /\ results' = [results EXCEPT
                                         !.commits = CommitsAfter(@, outcome = "committed")]
                       /\ pc' = "push"
       ELSE /\ pc' = "push"
            /\ UNCHANGED <<calls, results>>
    /\ UNCHANGED <<service_vars, engine_vars, config, status, finished, iter_vars, ci_status, files, poll_vars,
                   persisted, test_log, at_raise, since_fix, ci_iter>>

\* _push_and_monitor_ci: git_agent.push_branch(...)
Push ==
    /\ pc = "push"
    /\ calls' = [calls EXCEPT !.pushes = @ + 1]
    /\ \E ok \in BOOLEAN : pc' = IF ok THEN "poll" ELSE "except"
    /\ UNCHANGED <<service_vars, engine_vars, config, status, finished, results, iter_vars, ci_status, files,
                   poll_vars, persisted, test_log, at_raise, since_fix, ci_iter>>

\* `run_status is None` or a status that sends the poll back to sleep
StillPending(run_status) ==
    run_status = <<"none">> \/ run_status[1] \in PendingStatuses

\* a poll that takes every completed workflow run for a success
PollVerdictCompleted(run_status) ==
    IF run_status[1] = "completed" THEN "PASSED" ELSE "FAILED"

\* the CIStatus returned for a workflow run that is not pending
PollVerdict(run_status) ==
    IF run_status[1] = "completed" /\ run_status[2] = "success" THEN "PASSED" ELSE "FAILED"

\* the CIStatus returned after the while loop: "CI polling timeout"
TimeoutVerdict == "FAILED"

\* poll_workflow_status up to the first test of the deadline
PollStart ==
    /\ pc = "poll"
    /\ calls' = [calls EXCEPT !.polls = @ + 1]
    /\ IF OwnerRepoMissing(repo_url) \/ TokenMissing
       THEN /\ ci_status' = "FAILED"
            /\ ci_iter' = iteration
            /\ last_poll' = [NoPoll EXCEPT !.kind = "unconfigured"]
            /\ pc' = "ci_result"
            /\ UNCHANGED <<clock, deadline>>
       ELSE /\ clock' = 0
            /\ deadline' = PollTimeout
            /\ last_poll' = [NoPoll EXCEPT !.kind = "started"]
            /\ pc' = "poll_check"
            /\ UNCHANGED <<ci_status, ci_iter>>
    /\ UNCHANGED <<service_vars, engine_vars, config, status, finished, results, iter_vars, files, persisted,
                   test_log, at_raise, since_fix>>

\* `while time.monotonic() < deadline`, and the timeout result after the loop
PollCheck ==
    /\ pc = "poll_check"
    /\ IF clock < deadline
       THEN /\ pc' = "poll_fetch"
            /\ UNCHANGED <<ci_status, ci_iter, poll_vars>>
       ELSE /\ ci_status' = TimeoutVerdict
            /\ ci_iter' = iteration
            /\ clock' = 0
            /\ deadline' = 0
            /\ last_poll' = [last_poll EXCEPT !.kind = "timeout", !.at = clock,
                                                !.deadline = deadline]
            /\ pc' = "ci_result"
    /\ UNCHANGED <<service_vars, engine_vars, config, status, finished, results, iter_vars, files,
                   persisted, calls, test_log, at_raise, since_fix>>

\* _fetch_latest_workflow_run and the branches on its answer
PollFetch ==
    /\ pc = "poll_fetch"
    /\ \/ /\ pc' = "except"
          /\ clock' = 0
          /\ deadline' = 0
          /\ last_poll' = NoPoll
          /\ UNCHANGED <<ci_status, ci_iter>>
       \/ \E run_status \in FetchResults :
             /\ last_poll' = [kind |-> "fetched", run |-> run_status, at |-> clock,
                              deadline |-> deadline]
             /\ IF StillPending(run_status)
                THEN /\ pc' = "poll_sleep"
                     /\ UNCHANGED <<ci_status, ci_iter, clock, deadline>>
                ELSE /\ ci_status' = PollVerdict(run_status)
                     /\ ci_iter' = iteration
                     /\ clock' = 0
                     /\ deadline' = 0
                     /\ pc' = "ci_result"
    /\ UNCHANGED <<service_vars, engine_vars, config, status, finished, results, iter_vars, files,
                   persisted, calls, test_log, at_raise, since_fix>>

\* time.sleep(self.poll_interval); continue
PollSleep ==
    /\ pc = "poll_sleep"
    /\ clock' = SleepAdvance(clock)
    /\ pc' = "poll_check"
    /\ UNCHANGED <<service_vars, engine_vars, config, status, finished, results, iter_vars, ci_status, files,
                   deadline, last_poll, persisted, calls, test_log, at_raise, since_fix,
                   ci_iter>>

\* the statements after _push_and_monitor_ci returns: total_fixes (failing
\* branch only), the timeline entry, and the branch on the CI result
CIResult ==
    /\ pc = "ci_result"
    /\ results' = [results EXCEPT
                      !.total_fixes = IF test_result.passed THEN @ ELSE Len(results.fixes),
                      !.ci_timeline = Append(@, TimelineRecord(iteration,
                                                               TimelineStatus(ci_status)))]
    /\ since_fix' = IF ci_status = "PASSED" THEN [since_fix EXCEPT !.ci_passed = TRUE]
                    ELSE since_fix
    /\ pc' = IF CIPassed(ci_status) THEN "ci_pass_status" ELSE "loop"
    /\ last_poll' = NoPoll
    /\ UNCHANGED <<service_vars, engine_vars, config, status, finished, iter_vars, ci_status, files, clock,
                   deadline, persisted, calls, test_log, at_raise, ci_iter>>

\* CI passed: run_state.status = RunStatus.PASSED
CIPassStatus ==
    /\ pc = "ci_pass_status"
    /\ status' = PASSED
    /\ pc' = "ci_pass_final"
    /\ UNCHANGED <<service_vars, engine_vars, config, finished, results, iter_vars, ci_status, files, poll_vars,
                   persisted, calls, test_log, at_raise, since_fix, ci_iter>>

\* CI passed: final_status = PASSED, break
CIPassFinal ==
    /\ pc = "ci_pass_final"
    /\ results' = [results EXCEPT !.final_status = PASSED]
    /\ pc' = "after_loop"
    /\ UNCHANGED <<service_vars, engine_vars, config, status, finished, iter_vars, ci_status, files, poll_vars,
                   persisted, calls, test_log, at_raise, since_fix, ci_iter>>

\* after the loop: status = FAILED unless it is PASSED
AfterLoop ==
    /\ pc = "after_loop"
    /\ status' = AfterLoopStatus(status)
    /\ pc' = IF status # PASSED THEN "after_loop_final" ELSE "finally"
    /\ UNCHANGED <<service_vars, engine_vars, config, finished, results, iter_vars, ci_status, files, poll_vars,
                   persisted, calls, test_log, at_raise, since_fix, ci_iter>>

\* after the loop: final_status = FAILED
AfterLoopFinal ==
    /\ pc = "after_loop_final"
    /\ results' = [results EXCEPT !.final_status = FAILED]
    /\ pc' = "finally"
    /\ UNCHANGED <<service_vars, engine_vars, config, status, finished, iter_vars, ci_status, files, poll_vars,
                   persisted, calls, test_log, at_raise, since_fix, ci_iter>>

\* except Exception: status = FAILED
Except ==
    /\ pc = "except"
    /\ at_raise' = [raised |-> TRUE,
                    fixes |-> results.fixes,
                    commits |-> results.commits,
                    total_failures |-> results.total_failures,
                    ci_timeline |-> results.ci_timeline,
                    iterations_used |-> results.iterations_used,
                    calls |-> calls]
    /\ status' = ExceptStatus
    /\ pc' = "except_final"
    /\ UNCHANGED <<service_vars, engine_vars, config, finished, results, iter_vars, ci_status, files, poll_vars,
                   persisted, calls, test_log, since_fix, ci_iter>>

\* except Exception: final_status = FAILED
ExceptFinal ==
    /\ pc = "except_final"
    /\ results' = [results EXCEPT !.final_status = FAILED]
    /\ pc' = "finally"
    /\ UNCHANGED <<service_vars, engine_vars, config, status, finished, iter_vars, ci_status, files, poll_vars,
                   persisted, calls, test_log, at_raise, since_fix, ci_iter>>

\* a finalization that leaves the score fields as start_run built them
FinalReportNoScore(res, elapsed) ==
    [res EXCEPT !.total_fixes = Len(res.fixes),
                !.execution_time_seconds = elapsed]

\* the report as the finally block leaves it: total_fixes, the elapsed time
\* and the score breakdown of calculate_score(elapsed, commits)
FinalReport(res, elapsed) ==
    LET score_breakdown == CalculateScore(elapsed, res.commits)
    IN  [res EXCEPT !.total_fixes = Len(res.fixes),
                    !.execution_time_seconds = elapsed,
                    !.score_base = score_breakdown.base_score,
                    !.score_time_bonus = score_breakdown.time_bonus,
                    !.score_commit_penalty = score_breakdown.commit_penalty,
                    !.score = score_breakdown.final_score]

\* what the two write_text calls of _persist_results can do: both succeed,
\* the second raises after the per-run file was written, or nothing is
\* written because mkdir or the first write raises
PersistOutcomes == {"written", "run_file_only", "nothing"}

\* a finalization that never calls _persist_results
EmitReportNever(p, outcome) == p

\* _persist_results: one call, results/<run_id>.json first, then results.json
EmitReport(p, outcome) ==
    [emitted |-> p.emitted + 1,
     run_file |-> IF outcome \in {"written", "run_file_only"} THEN p.run_file + 1
                  ELSE p.run_file,
     root_file |-> IF outcome = "written" THEN p.root_file + 1 ELSE p.root_file]

\* finally: finished_at, total_fixes, elapsed time, score, upsert and
\* _persist_results, which writes the report or raises out of execute_run
Finally ==
    /\ pc = "finally"
    /\ finished' = TRUE
    /\ \E elapsed \in ElapsedSamples : results' = FinalReport(results, elapsed)
    /\ \E outcome \in PersistOutcomes : persisted' = EmitReport(persisted, outcome)
    /\ pc' = "done"
    /\ UNCHANGED <<service_vars, engine_vars, config, status, iter_vars, ci_status, files, poll_vars, calls,
                   test_log, at_raise, since_fix, ci_iter>>

Next ==
    \/ Clone
    \/ Checkout
    \/ LoopHead
    \/ RunTestsStep
    \/ LocalStatus
    \/ LocalFinal
    \/ FixStep
    \/ CommitStep
    \/ Push
    \/ PollStart
    \/ PollCheck
    \/ PollFetch
    \/ PollSleep
    \/ CIResult
    \/ CIPassStatus
    \/ CIPassFinal
    \/ AfterLoop
    \/ AfterLoopFinal
    \/ Except
    \/ ExceptFinal
    \/ Finally

Spec == Init /\ [][Next]_vars

\* the interpreter runs execute_run to its end: every enabled step is taken
FairSpec == Spec /\ WF_vars(Next)

\* ------------------------------------------------------------- git_agent
\* the fixed suffix of BRANCH_PATTERN
AIFixSuffix == <<"_","A","I","_","F","i","x">>

\* the class [A-Z_]
IsBranchChar(c) == c \in Range(UpperChars) \cup {"_"}

\* length of the longest prefix of s made of [A-Z_]
BranchCharRun(s) ==
    IF s = <<>> \/ ~IsBranchChar(s[1]) THEN 0
    ELSE CHOOSE n \in 1..Len(s) :
            /\ \A i \in 1..n : IsBranchChar(s[i])
            /\ n = Len(s) \/ ~IsBranchChar(s[n + 1])

\* BRANCH_PATTERN.fullmatch(branch_name) for ^[A-Z_]+_AI_Fix$: the class
\* takes some non-empty part of its run and the suffix must follow up to the
\* end of the string
BranchPatternFullMatch(branch_name) ==
    \E k \in 1..BranchCharRun(branch_name) :
        /\ MatchesAt(branch_name, AIFixSuffix, k + 1)
        /\ k + Len(AIFixSuffix) = Len(branch_name)

\* a validation that only looks at the end of the name
ValidateBranchNameSuffixOnly(branch_name) == EndsWith(branch_name, AIFixSuffix)

\* GitAgent.validate_branch_name
ValidateBranchName(branch_name) ==
    BranchPatternFullMatch(branch_name) /\ EndsWith(branch_name, AIFixSuffix)

\* PROTECTED_BRANCHES
ProtectedBranches == {<<"m","a","i","n">>, <<"m","a","s","t","e","r">>}

\* GitAgent.checkout_or_create_branch: enforce_branch_name and
\* ensure_not_main_branch raise before the repository is opened, an existing
\* branch of that name raises, otherwise `git checkout -b` creates the branch
\* or fails
CheckoutOrCreateBranch(branch_name, existing, git_ok) ==
    IF ~ValidateBranchName(branch_name)
    THEN [raises |-> TRUE, created |-> FALSE, error |-> "ValueError"]
    ELSE IF Lower(branch_name) \in ProtectedBranches
    THEN [raises |-> TRUE, created |-> FALSE, error |-> "ValueError"]
    ELSE IF existing
    THEN [raises |-> TRUE, created |-> FALSE, error |-> "ValueError"]
    ELSE IF git_ok
    THEN [raises |-> FALSE, created |-> TRUE, error |-> "none"]
    ELSE [raises |-> TRUE, created |-> FALSE, error |-> "GitCommandError"]

\* GitAgent.enforce_commit_prefix: TRUE when it raises ValueError
EnforceCommitPrefix(commit_message) == ~ValidateCommitPrefix(commit_message)

\* what the repository does once commit_all_changes reaches it: Repo(repo_path)
\* raises, `git add -A` raises, index.commit raises, or every call succeeds
GitOutcomes == {"ok", "open_failed", "add_failed", "commit_failed"}

\* GitAgent.commit_all_changes: the prefix check first, then Repo(repo_path),
\* `git add -A`, the is_dirty test and index.commit. `opened` and `staged` say
\* how far into the repository the call got, `message` is the message of the
\* commit it created
CommitAllChanges(commit_message, dirty, git) ==
    IF EnforceCommitPrefix(commit_message)
    THEN [raises |-> TRUE, error |-> "ValueError", opened |-> FALSE, staged |-> FALSE,
          committed |-> FALSE, message |-> <<>>]
    ELSE IF git = "open_failed"
    THEN [raises |-> TRUE, error |-> "GitError", opened |-> FALSE, staged |-> FALSE,
          committed |-> FALSE, message |-> <<>>]
    ELSE IF git = "add_failed"
    THEN [raises |-> TRUE, error |-> "GitError", opened |-> TRUE, staged |-> FALSE,
          committed |-> FALSE, message |-> <<>>]
    ELSE IF ~dirty
    THEN [raises |-> FALSE, error |-> "none", opened |-> TRUE, staged |-> TRUE,
          committed |-> FALSE, message |-> <<>>]
    ELSE IF git = "commit_failed"
    THEN [raises |-> TRUE, error |-> "GitError", opened |-> TRUE, staged |-> TRUE,
          committed |-> FALSE, message |-> <<>>]
    ELSE [raises |-> FALSE, error |-> "none", opened |-> TRUE, staged |-> TRUE,
          committed |-> TRUE, message |-> commit_message]

\* the f-string handed to commit_all_changes by execute_run
IterationCommitMessage(n) ==
    <<"[","A","I","-","A","G","E","N","T","]"," ","A","p","p","l","y"," ">> \o IntStr(n) \o <<" ","a","u","t","o","n","o","m","o","u","s"," ","f","i","x","(","e","s",")">>

\* the commit call the orchestrator makes
NoCommitCall ==
    [raises |-> FALSE, error |-> "none", opened |-> FALSE, staged |-> FALSE,
     committed |-> FALSE, message |-> <<>>]

\* `if fixes_applied > 0: committed = commit_all_changes(...)` of execute_run
CommitFixes(n, dirty, git) ==
    IF n > 0 THEN CommitAllChanges(IterationCommitMessage(n), dirty, git)
    ELSE NoCommitCall

\* generate_fix followed by enforce_commit_prefix(proposal.commit_message), as
\* the failure loop of execute_run calls them
ProposeFix(file, line_number, bug_type, message) ==
    LET proposal == GenerateFix(file, line_number, bug_type, message)
    IN  IF proposal.raises
        THEN [raises |-> TRUE, error |-> "generate_fix", commit_message |-> <<>>]
        ELSE IF EnforceCommitPrefix(proposal.commit_message)
        THEN [raises |-> TRUE, error |-> "ValueError",
              commit_message |-> proposal.commit_message]
        ELSE [raises |-> FALSE, error |-> "none",
              commit_message |-> proposal.commit_message]

\* GitAgent.ensure_not_main_branch compared without lowering the name
EnsureNotMainBranchExact(branch_name) == branch_name \in ProtectedBranches

\* GitAgent.ensure_not_main_branch: TRUE when it raises ValueError
EnsureNotMainBranch(branch_name) == Lower(branch_name) \in ProtectedBranches

\* GitAgent.push_branch: the protected-name check, the token check,
\* Repo(repo_path) and `git push origin <branch_name>`; `attempted` says the
\* push command was run, `pushed` names the branch it updated
PushBranch(branch_name, token, git) ==
    IF EnsureNotMainBranch(branch_name)
    THEN [raises |-> TRUE, error |-> "ValueError", attempted |-> FALSE, pushed |-> <<"none">>]
    ELSE IF ~token
    THEN [raises |-> TRUE, error |-> "Exception", attempted |-> FALSE, pushed |-> <<"none">>]
    ELSE IF git = "open_failed"
    THEN [raises |-> TRUE, error |-> "GitError", attempted |-> FALSE, pushed |-> <<"none">>]
    ELSE IF git = "push_failed"
    THEN [raises |-> TRUE, error |-> "GitError", attempted |-> TRUE, pushed |-> <<"none">>]
    ELSE [raises |-> FALSE, error |-> "none", attempted |-> TRUE,
          pushed |-> <<"branch", branch_name>>]

\* the one character U+00DF, whose upper case is the two characters SS
SharpS == "sz"

\* str.upper() on one character
UpperOf(c) == IF c = SharpS THEN <<"S","S">> ELSE UpperCase(<<c>>)

\* str.upper()
RECURSIVE Upper(_)
Upper(s) == IF s = <<>> THEN <<>> ELSE UpperOf(Head(s)) \o Upper(Tail(s))

\* str.replace(" ", "_")
SpacesToUnderscores(s) == [i \in 1..Len(s) |-> IF s[i] = " " THEN "_" ELSE s[i]]

\* re.sub(r"_+", "_", s)
RECURSIVE CollapseUnderscores(_)
CollapseUnderscores(s) ==
    IF Len(s) < 2 THEN s
    ELSE IF s[1] = "_" /\ s[2] = "_" THEN CollapseUnderscores(Tail(s))
    ELSE <<s[1]>> \o CollapseUnderscores(Tail(s))

\* str.strip("_")
RECURSIVE StripUnderscores(_)
StripUnderscores(s) ==
    IF s = <<>> THEN s
    ELSE IF Head(s) = "_" THEN StripUnderscores(Tail(s))
    ELSE IF s[Len(s)] = "_" THEN StripUnderscores(SubSeq(s, 1, Len(s) - 1))
    ELSE s

\* a _normalize that keeps runs of underscores and outer underscores
NormalizeKeepUnderscores(value) == SelectSeq(SpacesToUnderscores(Upper(value)), IsBranchChar)

\* a _normalize that drops nothing: upper case and spaces to underscores only
NormalizeKeepAll(value) == StripUnderscores(CollapseUnderscores(SpacesToUnderscores(Upper(value))))

\* GitAgent._normalize
Normalize(value) ==
    StripUnderscores(CollapseUnderscores(
        SelectSeq(SpacesToUnderscores(Upper(value)), IsBranchChar)))

\* GitAgent.build_branch_name
BuildBranchName(team_name, leader_name) ==
    Normalize(team_name) \o <<"_">> \o Normalize(leader_name) \o AIFixSuffix

\* the branch a run pushes: start_run builds and validates it,
\* checkout_or_create_branch returns it unchanged and _push_and_monitor_ci
\* hands it to push_branch
PushRunBranch(team_name, leader_name, token, git) ==
    LET branch_name == BuildBranchName(team_name, leader_name)
    IN  IF ~ValidateBranchName(branch_name)
        THEN [raises |-> TRUE, error |-> "start_run", attempted |-> FALSE,
              pushed |-> <<"none">>]
        ELSE PushBranch(branch_name, token, git)

\* ------------------------------------------------- test_agent: extraction
\* str.split(c) for a single character
RECURSIVE SplitOn(_, _)
SplitOn(s, c) ==
    IF \A i \in 1..Len(s) : s[i] # c THEN <<s>>
    ELSE LET k == CHOOSE i \in 1..Len(s) : s[i] = c /\ \A j \in 1..(i - 1) : s[j] # c
         IN  <<SubSeq(s, 1, k - 1)>> \o SplitOn(SubSeq(s, k + 1, Len(s)), c)

\* int(digits) for a non-empty run of decimal digits
RECURSIVE ParseInt(_)
ParseInt(digits) ==
    IF digits = <<>> THEN 0
    ELSE ParseInt(SubSeq(digits, 1, Len(digits) - 1)) * 10
         + (CHOOSE v \in 0..9 : DigitChars[v + 1] = digits[Len(digits)])

\* str.lstrip(c) for a single character
LStripChar(s, c) ==
    IF \A i \in 1..Len(s) : s[i] = c THEN <<>>
    ELSE SubSeq(s, CHOOSE j \in 1..Len(s) : s[j] # c /\ \A k \in 1..(j - 1) : s[k] = c,
                Len(s))

WordChars == Range(UpperChars) \cup Range(LowerChars) \cup Range(DigitChars) \cup {"_"}

\* a regex that did not match
NoMatch == [matched |-> FALSE]

\* TestAgent._normalize_file_path
NormalizeFilePath(file_path, repo_path) ==
    LET a == IF StartsWith(file_path, repo_path)
             THEN LStripChar(SubSeq(file_path, Len(repo_path) + 1, Len(file_path)), "/")
             ELSE file_path
        b == IF StartsWith(a, <<"/","w","o","r","k","s","p","a","c","e","/">>)
             THEN SubSeq(a, Len(<<"/","w","o","r","k","s","p","a","c","e","/">>) + 1, Len(a))
             ELSE a
    IN  IF StartsWith(b, <<".","/">>) THEN SubSeq(b, 3, Len(b)) ELSE b

\* (?:Error|Exception|Failure) at the end of a name that has at least
\* min_before characters before it
EndsWithErrorName(name, min_before) ==
    \E suffix \in {<<"E","r","r","o","r">>, <<"E","x","c","e","p","t","i","o","n">>, <<"F","a","i","l","u","r","e">>} :
        EndsWith(name, suffix) /\ Len(name) >= Len(suffix) + min_before

\* pytest_location_pattern.search(line):
\* ^([\w./\\-]+\.py):(\d+):\s+in\s+\w+
PytestLocationMatch(line) ==
    LET e == RunEnd(line, 1, WordChars \cup {".", "/", "\\", "-"})
        d == RunEnd(line, e + 2, Range(DigitChars))
        w == RunEnd(line, d + 2, Whitespace)
        v == RunEnd(line, w + 3, Whitespace)
    IN  IF /\ e >= 4
           /\ MatchesAt(line, <<".","p","y",":">>, e - 2)
           /\ d >= e + 2
           /\ MatchesAt(line, <<":">>, d + 1)
           /\ w >= d + 2
           /\ MatchesAt(line, <<"i","n">>, w + 1)
           /\ v >= w + 3
           /\ v + 1 <= Len(line)
           /\ line[v + 1] \in WordChars
        THEN [matched |-> TRUE, file |-> SubSeq(line, 1, e),
              line_number |-> ParseInt(SubSeq(line, e + 2, d))]
        ELSE NoMatch

\* pytest_error_pattern.search(line):
\* ^E\s+(\w+(?:Error|Exception|Failure)):\s*(.+)$ , group 2 stripped
PytestErrorMatch(line) ==
    LET w == RunEnd(line, 2, Whitespace)
        e == RunEnd(line, w + 1, WordChars)
    IN  IF /\ MatchesAt(line, <<"E">>, 1)
           /\ w >= 2
           /\ e >= w + 1
           /\ EndsWithErrorName(SubSeq(line, w + 1, e), 1)
           /\ MatchesAt(line, <<":">>, e + 1)
           /\ e + 2 <= Len(line)
        THEN [matched |-> TRUE, error_type |-> SubSeq(line, w + 1, e),
              message |-> Strip(SubSeq(line, e + 2, Len(line)))]
        ELSE NoMatch

\* error_type_pattern.search(line):
\* ^(\w*(?:Error|Exception|Failure)):\s*(.+) , group 2 stripped
ErrorTypeMatch(line) ==
    LET e == RunEnd(line, 1, WordChars)
    IN  IF /\ e >= 1
           /\ EndsWithErrorName(SubSeq(line, 1, e), 0)
           /\ MatchesAt(line, <<":">>, e + 1)
           /\ e + 2 <= Len(line)
        THEN [matched |-> TRUE, error_type |-> SubSeq(line, 1, e),
              message |-> Strip(SubSeq(line, e + 2, Len(line)))]
        ELSE NoMatch

\* end of the run [^"]+ that starts at i
NonQuoteRunEnd(line, i) ==
    IF \E q \in i..Len(line) : line[q] = "\""
    THEN (CHOOSE q \in i..Len(line) :
             line[q] = "\"" /\ \A k \in i..(q - 1) : line[k] # "\"") - 1
    ELSE Len(line)

\* traceback_pattern matches at position i:  File "([^"]+)", line (\d+)
TracebackAt(line, i) ==
    LET f == i + Len(<<"F","i","l","e"," ","\"">>)
        q == NonQuoteRunEnd(line, f)
        n == q + 1 + Len(<<"\"",","," ","l","i","n","e"," ">>)
    IN  /\ MatchesAt(line, <<"F","i","l","e"," ","\"">>, i)
        /\ q >= f
        /\ MatchesAt(line, <<"\"",","," ","l","i","n","e"," ">>, q + 1)
        /\ RunEnd(line, n, Range(DigitChars)) >= n

\* traceback_pattern.search(line): the leftmost match
TracebackMatch(line) ==
    IF \E i \in 1..Len(line) : TracebackAt(line, i)
    THEN LET i == CHOOSE i \in 1..Len(line) :
                     TracebackAt(line, i) /\ \A k \in 1..(i - 1) : ~TracebackAt(line, k)
             f == i + Len(<<"F","i","l","e"," ","\"">>)
             q == NonQuoteRunEnd(line, f)
             n == q + 1 + Len(<<"\"",","," ","l","i","n","e"," ">>)
         IN  [matched |-> TRUE, file |-> SubSeq(line, f, q),
              line_number |-> ParseInt(SubSeq(line, n, RunEnd(line, n, Range(DigitChars))))]
    ELSE NoMatch

\* the look-ahead of the stack-trace style: the first of the (up to four)
\* lines after line i that error_type_pattern matches
LookAhead(lines, i) ==
    LET window == {j \in (i + 1)..(i + 4) : j <= Len(lines)}
        hits == {j \in window : ErrorTypeMatch(lines[j]).matched}
    IN  IF hits = {}
        THEN [error_type |-> <<"U","n","k","n","o","w","n","E","r","r","o","r">>, message |-> <<"T","e","s","t"," ","f","a","i","l","u","r","e">>]
        ELSE LET j == CHOOSE j \in hits : \A k \in hits : j <= k
             IN  [error_type |-> ErrorTypeMatch(lines[j]).error_type,
                  message |-> ErrorTypeMatch(lines[j]).message]

\* a parser that forgets what it has already reported
SeenBeforeNever(key, seen) == FALSE

\* `key not in seen`, negated
SeenBefore(key, seen) == key \in seen

\* the state of _parse_pytest_output before its loop; None is <<>> for the
\* file and 0 for the line (both are falsy, like None, in the one test made)
\* `reports` is history: every record the pass put together, returned or not
ParseStart ==
    [current_file |-> <<>>, current_line |-> 0, seen |-> {}, failures |-> <<>>,
     reports |-> <<>>]

\* the deduplication key of a failure record
FailureKey(record) == <<record.file, record.line_number>>

\* `if key not in seen: seen.add(key); failures.append(...)` for a record put
\* together by either branch (full_traceback, which nothing outside the
\* parser reads, is left out of the records; `style` is history: the branch
\* that put the record together)
Report(st, record) ==
    [st EXCEPT !.seen = @ \cup {FailureKey(record)},
               !.failures = IF SeenBefore(FailureKey(record), st.seen) THEN @
                            ELSE Append(@, record),
               !.reports = Append(@, record)]

\* `if location_match:` the rolling location becomes that of the line
LocationStep(st, location_match, repo_path) ==
    IF location_match.matched
    THEN [st EXCEPT !.current_file = NormalizeFilePath(location_match.file, repo_path),
                    !.current_line = location_match.line_number]
    ELSE st

\* an error line that saves its record and leaves the rolling location set
ErrorLineStepNoReset(st, error_match) ==
    IF error_match.matched /\ st.current_file # <<>> /\ st.current_line # 0
    THEN Report(st, [file |-> st.current_file, line_number |-> st.current_line,
                     message |-> error_match.message,
                     error_type |-> error_match.error_type, style |-> "location"])
    ELSE st

\* `if error_match and current_file and current_line:` the record is saved
\* unless its key was seen, and the rolling location is reset
ErrorLineStep(st, error_match) ==
    IF error_match.matched /\ st.current_file # <<>> /\ st.current_line # 0
    THEN [Report(st, [file |-> st.current_file, line_number |-> st.current_line,
                      message |-> error_match.message,
                      error_type |-> error_match.error_type, style |-> "location"])
             EXCEPT !.current_file = <<>>, !.current_line = 0]
    ELSE st

\* `if key not in seen and file_path.endswith('.py'):` of the stack-trace branch
TracebackReport(st, record) ==
    IF EndsWith(record.file, <<".","p","y">>) THEN Report(st, record) ELSE st

\* `if traceback_match:` the stack-trace branch with its look-ahead
TracebackStep(st, traceback_match, ahead, repo_path) ==
    IF traceback_match.matched
    THEN TracebackReport(st, [file |-> NormalizeFilePath(traceback_match.file, repo_path),
                              line_number |-> traceback_match.line_number,
                              message |-> ahead.message,
                              error_type |-> ahead.error_type, style |-> "traceback"])
    ELSE st

\* one pass of `while i < len(lines)` on line i
ParseLine(st, lines, i, repo_path) ==
    TracebackStep(ErrorLineStep(LocationStep(st, PytestLocationMatch(lines[i]), repo_path),
                                PytestErrorMatch(lines[i])),
                  TracebackMatch(lines[i]), LookAhead(lines, i), repo_path)

\* the loop over lines 1..i
RECURSIVE ParseUpTo(_, _, _)
ParseUpTo(lines, i, repo_path) ==
    IF i = 0 THEN ParseStart
    ELSE ParseLine(ParseUpTo(lines, i - 1, repo_path), lines, i, repo_path)

\* TestAgent._parse_pytest_output
ParsePytestOutput(output, repo_path) ==
    LET lines == SplitOn(output, "\n")
    IN  ParseUpTo(lines, Len(lines), repo_path).failures

\* history of that call: the records it put together, in order
ParseReports(output, repo_path) ==
    LET lines == SplitOn(output, "\n")
    IN  ParseUpTo(lines, Len(lines), repo_path).reports

\* re.search(r'([\w./]+\.py):(\d+):', line) matches with group 1 starting at i
SetupLocationAt(line, i) ==
    LET cls == WordChars \cup {".", "/"}
        e == RunEnd(line, i, cls)
        d == RunEnd(line, e + 2, Range(DigitChars))
    IN  /\ e >= i + 3
        /\ MatchesAt(line, <<".","p","y",":">>, e - 2)
        /\ d >= e + 2
        /\ MatchesAt(line, <<":">>, d + 1)

\* re.search(r'([\w./]+\.py):(\d+):', line): the leftmost match
SetupLocationMatch(line) ==
    IF \E i \in 1..Len(line) : SetupLocationAt(line, i)
    THEN LET i == CHOOSE i \in 1..Len(line) :
                     SetupLocationAt(line, i) /\ \A k \in 1..(i - 1) : ~SetupLocationAt(line, k)
             e == RunEnd(line, i, WordChars \cup {".", "/"})
         IN  [matched |-> TRUE, file |-> SubSeq(line, i, e),
              line_number |-> ParseInt(SubSeq(line, e + 2,
                                              RunEnd(line, e + 2, Range(DigitChars))))]
    ELSE NoMatch

\* re.search(r'E\s+(\w+(?:Error|Exception)?)\s*:\s*(.+)', line) matches with
\* its E at position i
SetupErrorAt(line, i) ==
    LET w == RunEnd(line, i + 1, Whitespace)
        e == RunEnd(line, w + 1, WordChars)
        c == RunEnd(line, e + 1, Whitespace) + 1
    IN  /\ MatchesAt(line, <<"E">>, i)
        /\ w >= i + 1
        /\ e >= w + 1
        /\ MatchesAt(line, <<":">>, c)
        /\ c + 1 <= Len(line)

\* the leftmost match of that search, group 2 stripped
SetupErrorMatch(line) ==
    IF \E i \in 1..Len(line) : SetupErrorAt(line, i)
    THEN LET i == CHOOSE i \in 1..Len(line) :
                     SetupErrorAt(line, i) /\ \A k \in 1..(i - 1) : ~SetupErrorAt(line, k)
             w == RunEnd(line, i + 1, Whitespace)
             e == RunEnd(line, w + 1, WordChars)
             c == RunEnd(line, e + 1, Whitespace) + 1
         IN  [matched |-> TRUE, error_type |-> SubSeq(line, w + 1, e),
              message |-> Strip(SubSeq(line, c + 1, Len(line)))]
    ELSE NoMatch

\* `line.strip().startswith('E   ')`
IsELine(line) == StartsWith(Strip(line), <<"E"," "," "," ">>)

\* the locals of _parse_setup_error before its loop (None is <<>>)
SetupStart ==
    [error_file |-> <<>>, error_line |-> 1, error_type |-> <<"I","m","p","o","r","t","E","r","r","o","r">>,
     error_message |-> <<"S","e","t","u","p","/","c","o","n","f","i","g","u","r","a","t","i","o","n"," ","e","r","r","o","r">>]

\* `if line.strip().startswith('E   '):` and `if error_match:` of the loop
TakeErrorLine(line) == IsELine(line) /\ SetupErrorMatch(line).matched

\* `if match and not error_file:` the location is taken once
SetupLocationStep(st, match, repo_path) ==
    IF match.matched /\ st.error_file = <<>>
    THEN [st EXCEPT !.error_file = NormalizeFilePath(match.file, repo_path),
                    !.error_line = match.line_number]
    ELSE st

\* error_type and error_message are assigned from a matching E line
SetupErrorStep(st, take, error_match) ==
    IF take
    THEN [st EXCEPT !.error_type = error_match.error_type,
                    !.error_message = error_match.message]
    ELSE st

\* one pass of `for i, line in enumerate(lines)`
SetupLine(st, line, repo_path) ==
    SetupErrorStep(SetupLocationStep(st, SetupLocationMatch(line), repo_path),
                   TakeErrorLine(line), SetupErrorMatch(line))

RECURSIVE SetupUpTo(_, _, _)
SetupUpTo(lines, i, repo_path) ==
    IF i = 0 THEN SetupStart
    ELSE SetupLine(SetupUpTo(lines, i - 1, repo_path), lines[i], repo_path)

\* TestAgent._parse_setup_error: <<>> for None, else the one record
ParseSetupError(output, repo_path) ==
    LET lines == SplitOn(output, "\n")
        st == SetupUpTo(lines, Len(lines), repo_path)
    IN  IF st.error_file # <<>>
        THEN <<[file |-> st.error_file, line_number |-> st.error_line,
                message |-> st.error_message, error_type |-> st.error_type,
                style |-> "setup"]>>
        ELSE <<>>

\* TestAgent.run_tests from the exit code on, for a run that did not pass:
\* the setup branch for exit code 4, else (or when that finds nothing) the
\* parse, and the ValueError when nothing was extracted
ExtractFailures(returncode, output, repo_path) ==
    LET setup_failure == IF returncode = 4 THEN ParseSetupError(output, repo_path) ELSE <<>>
        failures == ParsePytestOutput(output, repo_path)
    IN  IF setup_failure # <<>> THEN [raises |-> FALSE, failures |-> setup_failure]
        ELSE IF failures = <<>> THEN [raises |-> TRUE, failures |-> <<>>]
        ELSE [raises |-> FALSE, failures |-> failures]

\* ------------------------------------------- the engines called on their own
\* error types and messages a failure can carry
ErrorTypeSamples ==
    {<<"I","m","p","o","r","t","E","r","r","o","r">>, <<"M","o","d","u","l","e","N","o","t","F","o","u","n","d","E","r","r","o","r">>, <<"N","a","m","e","E","r","r","o","r">>, <<"N","A","M","E","E","R","R","O","R">>,
     <<"S","y","n","t","a","x","E","r","r","o","r">>, <<"I","n","d","e","n","t","a","t","i","o","n","E","r","r","o","r">>, <<"T","a","b","E","r","r","o","r">>, <<"T","y","p","e","E","r","r","o","r">>,
     <<"A","t","t","r","i","b","u","t","e","E","r","r","o","r">>, <<"A","s","s","e","r","t","i","o","n","E","r","r","o","r">>, <<"V","a","l","u","e","E","r","r","o","r">>, <<>>}

MessageSamples ==
    {<<"n","a","m","e"," ","'","o","s","'"," ","i","s"," ","n","o","t"," ","d","e","f","i","n","e","d">>,
     <<"n","a","m","e"," ","'","s","y","n","t","a","x","'"," ","i","s"," ","n","o","t"," ","d","e","f","i","n","e","d">>,
     <<"N","o"," ","m","o","d","u","l","e"," ","n","a","m","e","d"," ","'","r","e","q","u","e","s","t","s","'">>,
     <<"c","a","n","n","o","t"," ","i","m","p","o","r","t"," ","n","a","m","e"," ","'","x","'">>,
     <<"i","n","v","a","l","i","d"," ","s","y","n","t","a","x">>,
     <<"I","n","v","a","l","i","d"," ","S","y","n","t","a","x",":"," ","u","n","e","x","p","e","c","t","e","d"," ","i","n","d","e","n","t">>,
     <<"u","n","e","x","p","e","c","t","e","d"," ","i","n","d","e","n","t">>,
     <<"e","x","p","e","c","t","e","d"," ","a","n"," ","i","n","d","e","n","t","e","d"," ","b","l","o","c","k">>,
     <<"e","x","p","e","c","t","e","d"," ","t","y","p","e"," ","i","n","t",","," ","g","o","t"," ","s","t","r">>,
     <<"f","l","a","k","e","8",":"," ","g","o","t"," ","u","n","e","x","p","e","c","t","e","d"," ","t","y","p","e">>,
     <<"p","y","l","i","n","t"," ","w","a","r","n","i","n","g">>,
     <<"a","s","s","e","r","t"," ","1"," ","=","="," ","2">>,
     <<>>}

\* (error_type, message) arguments of _classify_bug_type
ClassifyInputs ==
    {[engine |-> "classify", error_type |-> e, message |-> m] :
        e \in ErrorTypeSamples, m \in MessageSamples}

\* arguments of generate_fix: every BugType and a value outside the
\* enumeration, file names (one empty, one holding a line break), line numbers
GenerateFixInputs ==
    {[engine |-> "generate_fix", file |-> f, line_number |-> n, bug_type |-> b, message |-> m] :
        f \in {<<>>, AppPy, <<"a","\n","b",".","p","y">>},
        n \in {0 - 1, 0, 1, 12},
        b \in BugTypes \cup {"UNKNOWN"},
        m \in {<<"n","a","m","e"," ","'","o","s","'"," ","i","s"," ","n","o","t"," ","d","e","f","i","n","e","d">>, <<"a","s","s","e","r","t"," ","1"," ","=","="," ","2">>}}

\* contents of the file apply_fix is pointed at
ContentSamples ==
    {InitialTree[AppPy],
     <<"d","e","f"," ","f","(",")","\n"," "," ","y","\n">>,
     <<" "," ","x","\n"," "," ","y","\n">>,
     <<"f","(","(","1","\n">>,
     <<"y","\n">>,
     <<>>}

\* (bug_type, error_type, message) arguments of apply_fix
FixFailureSamples ==
    {<<"IMPORT", <<"N","a","m","e","E","r","r","o","r">>, <<"n","a","m","e"," ","'","o","s","'"," ","i","s"," ","n","o","t"," ","d","e","f","i","n","e","d">>>>,
     <<"IMPORT", <<"N","a","m","e","E","r","r","o","r">>, <<"n","a","m","e"," ","'","z","z","'"," ","i","s"," ","n","o","t"," ","d","e","f","i","n","e","d">>>>,
     <<"IMPORT", <<"M","o","d","u","l","e","N","o","t","F","o","u","n","d","E","r","r","o","r">>, <<"N","o"," ","m","o","d","u","l","e"," ","n","a","m","e","d"," ","'","r","e","q","u","e","s","t","s","'">>>>,
     <<"IMPORT", <<"I","m","p","o","r","t","E","r","r","o","r">>, <<"i","m","p","o","r","t"," ","f","a","i","l","e","d",":"," ","n","o"," ","m","o","d","u","l","e"," ","n","a","m","e","d"," ","'","f","o","o","'">>>>,
     <<"SYNTAX", <<"S","y","n","t","a","x","E","r","r","o","r">>, <<"e","x","p","e","c","t","e","d"," ","'",":","'">>>>,
     <<"SYNTAX", <<"S","y","n","t","a","x","E","r","r","o","r">>, <<"u","n","c","l","o","s","e","d"," ","p","a","r","e","n","t","h","e","s","i","s">>>>,
     <<"INDENTATION", <<"I","n","d","e","n","t","a","t","i","o","n","E","r","r","o","r">>, <<"u","n","e","x","p","e","c","t","e","d"," ","i","n","d","e","n","t">>>>,
     <<"TYPE_ERROR", <<"T","y","p","e","E","r","r","o","r">>, <<"u","n","s","u","p","p","o","r","t","e","d"," ","o","p","e","r","a","n","d"," ","t","y","p","e">>>>,
     <<"LOGIC", <<"A","s","s","e","r","t","i","o","n","E","r","r","o","r">>, <<"a","s","s","e","r","t"," ","1"," ","=","="," ","2">>>>,
     <<"LINTING", <<>>, <<"f","l","a","k","e","8">>>>,
     <<"LOGIC", <<"I","m","p","o","r","t","e","r","E","r","r","o","r">>, <<"n","a","m","e"," ","'","o","s","'"," ","i","s"," ","n","o","t"," ","d","e","f","i","n","e","d">>>>}

\* arguments of apply_fix together with the file system it runs on: the tree
\* before the call (holding the target file or not) and what the file system
\* and ast.parse answer
ApplyFixInputs ==
    {[engine |-> "apply_fix", file |-> AppPy, tree |-> t, line_number |-> n,
      bug_type |-> k[1], error_type |-> k[2], message |-> k[3], io |-> io] :
        t \in {[f \in {AppPy} |-> c] : c \in ContentSamples} \cup {<<>>},
        n \in 0..3,
        k \in FixFailureSamples,
        io \in IOOutcomes}

\* arguments of calculate_score
ScoreInputs ==
    {[engine |-> "calculate_score", execution_time_seconds |-> s, commits |-> c] :
        s \in {0, 10, 299, 300, 301, 400},
        c \in {0, 5, 20, 21, 25, 75, 76, 80}}

\* branch names handed to validate_branch_name and checkout_or_create_branch
BranchNameSamples ==
    {<<"A","_","A","I","_","F","i","x">>, <<"_","_","A","I","_","F","i","x">>, <<"A","B","_","C","_","A","I","_","F","i","x">>, <<"A","_","A","I","_","F","i","x","_","A","I","_","F","i","x">>,
     <<"_","A","I","_","F","i","x">>, <<>>, <<"A","1","_","A","I","_","F","i","x">>, <<"a","_","A","I","_","F","i","x">>, <<"A","b","_","A","I","_","F","i","x">>,
     <<"A","-","B","_","A","I","_","F","i","x">>, <<"A"," ","B","_","A","I","_","F","i","x">>, <<"A","_","A","I","_","F","I","X">>, <<"A","_","a","i","_","f","i","x">>,
     <<"A","_","A","I","_","F","i","x","_">>, <<"A","_","A","I","_","F","i","x">> \o <<"\n">>, <<"A","_","A","I","_","F","i">>, <<"A","A","I","_","F","i","x">>,
     <<"m","a","i","n">>, <<"M","A","S","T","E","R">>, <<"X","_","A","I","_","F","i","x","1">>}

BranchInputs ==
    {[engine |-> "validate_branch_name", branch_name |-> b] : b \in BranchNameSamples}
    \cup {[engine |-> "checkout_or_create_branch", branch_name |-> b, existing |-> e,
           git_ok |-> g] : b \in BranchNameSamples, e \in BOOLEAN, g \in BOOLEAN}

\* commit messages handed to enforce_commit_prefix and commit_all_changes
CommitMessageSamples ==
    {<<"[","A","I","-","A","G","E","N","T","]"," ","A","p","p","l","y"," ","1"," ","a","u","t","o","n","o","m","o","u","s"," ","f","i","x","(","e","s",")">>, <<"[","A","I","-","A","G","E","N","T","]">>, <<"[","A","I","-","A","G","E","N","T","]","x">>,
     <<>>, <<"A","p","p","l","y"," ","1"," ","a","u","t","o","n","o","m","o","u","s"," ","f","i","x","(","e","s",")">>, <<" ","[","A","I","-","A","G","E","N","T","]"," ","f","i","x">>, <<"F","i","x"," ","[","A","I","-","A","G","E","N","T","]">>,
     <<"[","a","i","-","a","g","e","n","t","]"," ","f","i","x">>, <<"[","A","I","-","A","G","E","N","T"," ","f","i","x">>, <<"A","I","-","A","G","E","N","T","]"," ","f","i","x">>, <<"[","A","I","_","A","G","E","N","T","]"," ","f","i","x">>,
     <<"[">>, <<"\n","[","A","I","-","A","G","E","N","T","]"," ","f","i","x">>}

CommitInputs ==
    {[engine |-> "enforce_commit_prefix", commit_message |-> m] : m \in CommitMessageSamples}
    \cup {[engine |-> "commit_all_changes", commit_message |-> m, dirty |-> d, git |-> g] :
             m \in CommitMessageSamples, d \in BOOLEAN, g \in GitOutcomes}
    \cup {[engine |-> "commit_fixes", fixes_applied |-> n, dirty |-> d, git |-> g] :
             n \in {0, 1, 2, 9, 10, 12}, d \in BOOLEAN, g \in GitOutcomes}
    \cup {[engine |-> "propose_fix", file |-> f, line_number |-> n, bug_type |-> b,
           message |-> <<"a","s","s","e","r","t"," ","1"," ","=","="," ","2">>] :
             f \in {<<>>, AppPy, ConftestPy, <<"[","A","I","-","A","G","E","N","T","]">>, <<"a","\n","b",".","p","y">>},
             n \in {0, 1, 12},
             b \in BugTypes \cup {"UNKNOWN"}}

\* branch names handed to push_branch
PushNameSamples ==
    {<<"m","a","i","n">>, <<"M","A","I","N">>, <<"M","a","i","n">>, <<"m","a","s","t","e","r">>, <<"M","A","S","T","E","R">>, <<"m","A","s","T","e","R">>, <<"m","a","i","n"," ">>,
     <<"m","a","i","n","l","i","n","e">>, <<"o","r","i","g","i","n","/","m","a","i","n">>, <<"m","a","s","t","e","r","s">>, <<>>, <<"d","e","v","e","l","o","p">>,
     <<"A","_","A","I","_","F","i","x">>, <<"M","A","I","N","_","A","I","_","F","i","x">>, <<"M","A","I","N","_","_","A","I","_","F","i","x">>}

\* team and leader names a request can carry
NameSamples ==
    {<<"R","I","F","T"," ","O","R","G","A","N","I","S","E","R","S">>, <<"S","a","i","y","a","m"," ","K","u","m","a","r">>, <<"a">>, <<>>, <<" ">>, <<"1","2","3">>, <<"m","a","i","n">>,
     <<"m","a","s","t","e","r">>, <<"A"," "," ","B">>, <<" ","x"," ">>, <<"a","_","b">>, <<"a","-","b">>, <<"a", SharpS>>, <<"T","e","a","m","	","1">>,
     <<"x","\n">>, <<"_">>, <<"A","I","_","F","i","x">>, <<"a","b"," ","c","1">>}

PushInputs ==
    {[engine |-> "push_branch", branch_name |-> b, token |-> k, git |-> g] :
        b \in PushNameSamples, k \in BOOLEAN, g \in {"ok", "open_failed", "push_failed"}}
    \cup {[engine |-> "push_run_branch", team_name |-> a, leader_name |-> b, token |-> TRUE,
           git |-> g] :
             a \in NameSamples, b \in NameSamples, g \in {"ok", "push_failed"}}

\* repo_path of the checkout
RepoPath == <<"/","r","e","p","o">>

\* pytest output with failing tests
ParseOutputSamples ==
    {<<"a",".","p","y",":","5",":"," ","i","n"," ","t","e","s","t","_","x","\n","E"," "," "," ","V","a","l","u","e","E","r","r","o","r",":"," ","b","a","d","\n"," "," ","F","i","l","e"," ","\"","a",".","p","y","\"",","," ","l","i","n","e"," ","5",","," ","i","n"," ","t","e","s","t","_","x","\n","V","a","l","u","e","E","r","r","o","r",":"," ","b","a","d">>,
     <<" "," ","F","i","l","e"," ","\"",".","/","a",".","p","y","\"",","," ","l","i","n","e"," ","5",","," ","i","n"," ","t","\n","V","a","l","u","e","E","r","r","o","r",":"," ","b","a","d","\n","a",".","p","y",":","5",":"," ","i","n"," ","t","\n","E"," "," "," ","V","a","l","u","e","E","r","r","o","r",":"," ","w","o","r","s","e">>,
     <<"a",".","p","y",":","5",":"," ","i","n"," ","t","\n"," "," ","F","i","l","e"," ","\"","/","w","o","r","k","s","p","a","c","e","/","a",".","p","y","\"",","," ","l","i","n","e"," ","5",","," ","i","n"," ","t","\n","E"," "," "," ","K","e","y","E","r","r","o","r",":"," ","k">>,
     <<"a",".","p","y",":","5",":"," ","i","n"," ","t","\n","E"," "," "," ","K","e","y","E","r","r","o","r",":"," ","k","\n","b",".","p","y",":","7",":"," ","i","n"," ","u","\n","E"," "," "," ","T","y","p","e","E","r","r","o","r",":"," ","t">>,
     <<"a",".","p","y",":","5",":"," ","i","n"," ","t","\n","E"," "," "," ","K","e","y","E","r","r","o","r",":"," ","k","\n",".","/","a",".","p","y",":","5",":"," ","i","n"," ","u","\n","E"," "," "," ","T","y","p","e","E","r","r","o","r",":"," ","t">>,
     <<"1"," ","f","a","i","l","e","d"," ","i","n"," ","0",".","1","s">>,
     <<"F","i","l","e"," ","\"","a",".","t","x","t","\"",","," ","l","i","n","e"," ","3","\n","V","a","l","u","e","E","r","r","o","r",":"," ","x">>,
     <<"F","i","l","e"," ","\"","/","r","e","p","o","/","a",".","p","y","\"",","," ","l","i","n","e"," ","5","\n","I","n","d","e","x","E","r","r","o","r",":"," ","i","\n","a",".","p","y",":","5",":"," ","i","n"," ","t","\n","E"," "," "," ","I","n","d","e","x","E","r","r","o","r",":"," ","j">>,
     <<"a",".","p","y",":","0",":"," ","i","n"," ","t","\n","E"," "," "," ","X","E","r","r","o","r",":"," ","m">>,
     <<"a",".","p","y",":","5",":"," ","i","n"," ","t","\n","E"," "," "," ","K","e","y","E","r","r","o","r",":"," ","k","\n","F","i","l","e"," ","\"","a",".","p","y","\"",","," ","l","i","n","e"," ","6","\n","\n","\n","\n","\n","K","e","y","E","r","r","o","r",":"," ","z">>,
     <<"F","i","l","e"," ","\"","a",".","p","y","\"",","," ","l","i","n","e"," ","5","\n","F","i","l","e"," ","\"","a",".","p","y","\"",","," ","l","i","n","e"," ","5","\n","O","S","E","r","r","o","r",":"," ","o">>}

\* pytest output of a run that failed before any test ran
SetupOutputSamples ==
    {<<"I","m","p","o","r","t","E","r","r","o","r"," ","w","h","i","l","e"," ","l","o","a","d","i","n","g"," ","c","o","n","f","t","e","s","t"," ","'","/","w","o","r","k","s","p","a","c","e","/","c","o","n","f","t","e","s","t",".","p","y","'",".","\n","c","o","n","f","t","e","s","t",".","p","y",":","4",":"," ","i","n"," ","<","m","o","d","u","l","e",">","\n"," "," "," "," ","i","m","p","o","r","t"," ","f","o","o","\n","E"," "," "," ","M","o","d","u","l","e","N","o","t","F","o","u","n","d","E","r","r","o","r",":"," ","N","o"," ","m","o","d","u","l","e"," ","n","a","m","e","d"," ","'","f","o","o","'">>,
     <<"c","o","n","f","t","e","s","t",".","p","y",":","4",":"," ","i","n"," ","<","m","o","d","u","l","e",">","\n","E"," "," "," ","I","m","p","o","r","t","E","r","r","o","r",":"," ","a","\n","E"," "," "," ","M","o","d","u","l","e","N","o","t","F","o","u","n","d","E","r","r","o","r",":"," ","b">>,
     <<"c","o","n","f","t","e","s","t",".","p","y",":","4",":"," ","i","n"," ","<","m","o","d","u","l","e",">","\n"," "," "," "," ","i","m","p","o","r","t"," ","f","o","o">>,
     <<"E","R","R","O","R",":"," ","u","s","a","g","e",":"," ","p","y","t","e","s","t"," ","[","o","p","t","i","o","n","s","]">>,
     <<"t","e","s","t","s","/","c","o","n","f","t","e","s","t",".","p","y",":","2",":"," ","i","n"," ","<","m","o","d","u","l","e",">","\n","a","p","p",".","p","y",":","9",":"," ","i","n"," ","<","m","o","d","u","l","e",">","\n","E"," "," "," ","N","a","m","e","E","r","r","o","r",":"," ","n">>,
     <<".","/","c","o","n","f","t","e","s","t",".","p","y",":","4",":"," ","i","n"," ","<","m","o","d","u","l","e",">","\n","E"," "," "," ","H","i","n","t",":"," ","m","a","k","e">>}

ExtractionInputs ==
    {[engine |-> "parse_pytest_output", output |-> o, repo_path |-> RepoPath] :
        o \in ParseOutputSamples \cup SetupOutputSamples}
    \cup {[engine |-> "extract_failures", returncode |-> c, output |-> o,
           repo_path |-> RepoPath] :
             c \in {1, 4}, o \in ParseOutputSamples \cup SetupOutputSamples}

\* pytest output whose location and error lines do not come in pairs
ScanOutputSamples ==
    ParseOutputSamples
    \cup {<<"E"," "," "," ","K","e","y","E","r","r","o","r",":"," ","k","\n","a",".","p","y",":","5",":"," ","i","n"," ","t","\n","b",".","p","y",":","7",":"," ","i","n"," ","u","\n","E"," "," "," ","T","y","p","e","E","r","r","o","r",":"," ","t","\n","E"," "," "," ","V","a","l","u","e","E","r","r","o","r",":"," ","v">>,
          <<"a",".","p","y",":","5",":"," ","i","n"," ","t","\n","E"," "," "," ","a","s","s","e","r","t"," ","1"," ","=","="," ","2","\n","b",".","p","y",":","7",":"," ","i","n"," ","u","\n","n","o","i","s","e","\n","E"," "," "," ","T","y","p","e","E","r","r","o","r",":"," ","t","\n","c",".","p","y",":","9",":"," ","i","n"," ","w">>,
          <<"a",".","p","y",":","0",":"," ","i","n"," ","t","\n","E"," "," "," ","K","e","y","E","r","r","o","r",":"," ","k","\n","E"," "," "," ","T","y","p","e","E","r","r","o","r",":"," ","t","\n","a",".","p","y",":","3",":"," ","i","n"," ","u","\n","E"," "," "," ","O","S","E","r","r","o","r",":"," ","o","\n","a",".","p","y",":","3",":"," ","i","n"," ","u","\n","E"," "," "," ","O","S","E","r","r","o","r",":"," ","p">>}

ScanInputs ==
    {[engine |-> "scan", output |-> o, repo_path |-> RepoPath] : o \in ScanOutputSamples}

\* file contents whose lines are indented with spaces, tabs or not at all,
\* with blank lines and a last line without a line break among them
IndentContentSamples ==
    {<<"x","\n","\n"," "," ","y","\n">>,
     <<"a","\n"," ","\n"," "," ","b","\n">>,
     <<"x","\n","	","y","\n"," "," "," "," ","z","\n">>,
     <<"x","\n"," "," ","y">>,
     <<"i","f"," ","a",":","\n"," "," "," "," ","b","\n"," ","c","\n","d","\n">>,
     <<"x","\n"," "," ","\n","z","\n">>}

\* arguments of _generate_fixed_content
HeuristicInputs ==
    {[engine |-> "generate_fixed_content", original_content |-> c, line_number |-> n,
      bug_type |-> k[1], error_type |-> k[2], message |-> k[3]] :
        c \in IndentContentSamples,
        n \in 0..5,
        k \in {<<"INDENTATION", <<"I","n","d","e","n","t","a","t","i","o","n","E","r","r","o","r">>, <<"u","n","e","x","p","e","c","t","e","d"," ","i","n","d","e","n","t">>>>,
              <<"LOGIC", <<"A","s","s","e","r","t","i","o","n","E","r","r","o","r">>, <<"a","s","s","e","r","t"," ","1"," ","=","="," ","2">>>>}}

\* (team_name, leader_name) arguments of build_branch_name
BuildBranchNameInputs ==
    {[engine |-> "build_branch_name", team_name |-> t, leader_name |-> l] :
        t \in NameSamples, l \in NameSamples}

EngineInputs ==
    ClassifyInputs \cup GenerateFixInputs \cup ApplyFixInputs \cup ScoreInputs
    \cup BranchInputs \cup ExtractionInputs \cup CommitInputs
    \cup PushInputs \cup ScanInputs \cup HeuristicInputs
    \cup BuildBranchNameInputs

\* one call of one engine, outside any run: the arguments are drawn here
EngineInit ==
    /\ engine_in \in EngineInputs
    /\ engine_out = NoCall
    /\ ServiceIdle
    /\ pc = "engine"
    /\ retry_limit = 1
    /\ repo_url = "file"
    /\ status = RUNNING
    /\ finished = FALSE
    /\ results = NewResults(1)
    /\ iteration = 0
    /\ test_result = [passed |-> FALSE, failures |-> <<>>]
    /\ fidx = 0
    /\ fixes_applied = 0
    /\ ci_status = "none"
    /\ files = IF engine_in.engine = "apply_fix" THEN engine_in.tree ELSE InitialTree
    /\ clock = 0
    /\ deadline = 0
    /\ last_poll = NoPoll
    /\ persisted = NothingPersisted
    /\ calls = [tests |-> 0, fixes |-> 0, commits |-> 0, created |-> 0, pushes |-> 0,
                polls |-> 0]
    /\ test_log = <<>>
    /\ at_raise = NoRaise
    /\ since_fix = [tests_passed |-> TRUE, ci_passed |-> TRUE]
    /\ ci_iter = 0

run_vars == <<pc, config, status, finished, results, iter_vars, ci_status, poll_vars,
              persisted, calls, test_log, at_raise, since_fix, ci_iter>>

\* failure_parser_agent._classify_bug_type(error_type, message)
ClassifyCall ==
    /\ pc = "engine"
    /\ engine_in.engine = "classify"
    /\ engine_out = NoCall
    /\ engine_out' = [engine |-> "classify",
                      bug_type |-> ClassifyBugType(engine_in.error_type, engine_in.message)]
    /\ UNCHANGED <<service_vars, engine_in, run_vars, files>>

\* fix_agent.generate_fix(file, line_number, bug_type, message)
GenerateFixCall ==
    /\ pc = "engine"
    /\ engine_in.engine = "generate_fix"
    /\ engine_out = NoCall
    /\ engine_out' = [engine |-> "generate_fix",
                      proposal |-> GenerateFix(engine_in.file, engine_in.line_number,
                                               engine_in.bug_type, engine_in.message)]
    /\ UNCHANGED <<service_vars, engine_in, run_vars, files>>

\* fix_agent.apply_fix(repo_path, file, line_number, bug_type, message, error_type)
ApplyFixCall ==
    /\ pc = "engine"
    /\ engine_in.engine = "apply_fix"
    /\ engine_out = NoCall
    /\ LET present == engine_in.file \in DOMAIN files
           original_content == IF present THEN files[engine_in.file] ELSE <<>>
           fixed_content == GenerateFixedContent(original_content, engine_in.line_number,
                                                 engine_in.bug_type, engine_in.error_type,
                                                 engine_in.message)
           fix == ApplyFix(present, original_content, engine_in.line_number,
                           fixed_content, engine_in.io)
       IN  /\ files' = IF present THEN [files EXCEPT ![engine_in.file] = fix.content]
                       ELSE files
           /\ engine_out' = [engine |-> "apply_fix",
                             applied |-> fix.applied,
                             raises |-> fix.raises]
    /\ UNCHANGED <<service_vars, engine_in, run_vars>>

\* score_agent.calculate_score(execution_time_seconds, commits)
CalculateScoreCall ==
    /\ pc = "engine"
    /\ engine_in.engine = "calculate_score"
    /\ engine_out = NoCall
    /\ engine_out' = [engine |-> "calculate_score",
                      score |-> CalculateScore(engine_in.execution_time_seconds,
                                               engine_in.commits)]
    /\ UNCHANGED <<service_vars, engine_in, run_vars, files>>

\* git_agent.enforce_branch_name(branch_name): validate_branch_name, and a
\* ValueError when it returns False
ValidateBranchNameCall ==
    /\ pc = "engine"
    /\ engine_in.engine = "validate_branch_name"
    /\ engine_out = NoCall
    /\ LET valid == ValidateBranchName(engine_in.branch_name)
       IN  engine_out' = [engine |-> "validate_branch_name",
                          valid |-> valid,
                          raises |-> ~valid]
    /\ UNCHANGED <<service_vars, engine_in, run_vars, files>>

\* git_agent.checkout_or_create_branch(repo_path, branch_name, run_id)
CheckoutOrCreateBranchCall ==
    /\ pc = "engine"
    /\ engine_in.engine = "checkout_or_create_branch"
    /\ engine_out = NoCall
    /\ LET outcome == CheckoutOrCreateBranch(engine_in.branch_name, engine_in.existing,
                                             engine_in.git_ok)
       IN  engine_out' = [engine |-> "checkout_or_create_branch",
                          raises |-> outcome.raises,
                          created |-> outcome.created,
                          error |-> outcome.error]
    /\ UNCHANGED <<service_vars, engine_in, run_vars, files>>

\* test_agent._parse_pytest_output(combined_output, repo_path)
ParsePytestOutputCall ==
    /\ pc = "engine"
    /\ engine_in.engine = "parse_pytest_output"
    /\ engine_out = NoCall
    /\ engine_out' = [engine |-> "parse_pytest_output",
                      failures |-> ParsePytestOutput(engine_in.output, engine_in.repo_path),
                      reports |-> ParseReports(engine_in.output, engine_in.repo_path)]
    /\ UNCHANGED <<service_vars, engine_in, run_vars, files>>

\* test_agent.run_tests once the sandbox returned a non-zero exit code
ExtractFailuresCall ==
    /\ pc = "engine"
    /\ engine_in.engine = "extract_failures"
    /\ engine_out = NoCall
    /\ LET extracted == ExtractFailures(engine_in.returncode, engine_in.output,
                                        engine_in.repo_path)
       IN  engine_out' = [engine |-> "extract_failures",
                          raises |-> extracted.raises,
                          failures |-> extracted.failures]
    /\ UNCHANGED <<service_vars, engine_in, run_vars, files>>

\* git_agent.enforce_commit_prefix(commit_message)
EnforceCommitPrefixCall ==
    /\ pc = "engine"
    /\ engine_in.engine = "enforce_commit_prefix"
    /\ engine_out = NoCall
    /\ engine_out' = [engine |-> "enforce_commit_prefix",
                      raises |-> EnforceCommitPrefix(engine_in.commit_message)]
    /\ UNCHANGED <<service_vars, engine_in, run_vars, files>>

\* git_agent.commit_all_changes(repo_path, commit_message)
CommitAllChangesCall ==
    /\ pc = "engine"
    /\ engine_in.engine = "commit_all_changes"
    /\ engine_out = NoCall
    /\ engine_out' = [engine |-> "commit_all_changes",
                      outcome |-> CommitAllChanges(engine_in.commit_message,
                                                   engine_in.dirty, engine_in.git)]
    /\ UNCHANGED <<service_vars, engine_in, run_vars, files>>

\* the commit of one iteration of execute_run, for a given fixes_applied
CommitFixesCall ==
    /\ pc = "engine"
    /\ engine_in.engine = "commit_fixes"
    /\ engine_out = NoCall
    /\ engine_out' = [engine |-> "commit_fixes",
                      outcome |-> CommitFixes(engine_in.fixes_applied, engine_in.dirty,
                                              engine_in.git)]
    /\ UNCHANGED <<service_vars, engine_in, run_vars, files>>

\* generate_fix and enforce_commit_prefix of one pass of the failure loop
ProposeFixCall ==
    /\ pc = "engine"
    /\ engine_in.engine = "propose_fix"
    /\ engine_out = NoCall
    /\ engine_out' = [engine |-> "propose_fix",
                      outcome |-> ProposeFix(engine_in.file, engine_in.line_number,
                                             engine_in.bug_type, engine_in.message)]
    /\ UNCHANGED <<service_vars, engine_in, run_vars, files>>

\* git_agent.push_branch(repo_path, branch_name)
PushBranchCall ==
    /\ pc = "engine"
    /\ engine_in.engine = "push_branch"
    /\ engine_out = NoCall
    /\ engine_out' = [engine |-> "push_branch",
                      outcome |-> PushBranch(engine_in.branch_name, engine_in.token,
                                             engine_in.git)]
    /\ UNCHANGED <<service_vars, engine_in, run_vars, files>>

\* the push of a run started for (team_name, leader_name)
PushRunBranchCall ==
    /\ pc = "engine"
    /\ engine_in.engine = "push_run_branch"
    /\ engine_out = NoCall
    /\ engine_out' = [engine |-> "push_run_branch",
                      outcome |-> PushRunBranch(engine_in.team_name, engine_in.leader_name,
                                                engine_in.token, engine_in.git)]
    /\ UNCHANGED <<service_vars, engine_in, run_vars, files>>

\* _parse_pytest_output up to its loop: the rolling state before line 1
ScanStart ==
    /\ pc = "engine"
    /\ engine_in.engine = "scan"
    /\ engine_out = NoCall
    /\ engine_out' = [engine |-> "scan", i |-> 0, st |-> ParseStart]
    /\ UNCHANGED <<service_vars, engine_in, run_vars, files>>

\* one pass of `while i < len(lines)` and `i += 1`
ScanLine ==
    /\ pc = "engine"
    /\ engine_out.engine = "scan"
    /\ LET lines == SplitOn(engine_in.output, "\n")
       IN  /\ engine_out.i < Len(lines)
           /\ engine_out' = [engine |-> "scan",
                             i |-> engine_out.i + 1,
                             st |-> ParseLine(engine_out.st, lines, engine_out.i + 1,
                                              engine_in.repo_path)]
    /\ UNCHANGED <<service_vars, engine_in, run_vars, files>>

\* fix_agent._generate_fixed_content(original_content, line_number, bug_type,
\* error_type, message)
GenerateFixedContentCall ==
    /\ pc = "engine"
    /\ engine_in.engine = "generate_fixed_content"
    /\ engine_out = NoCall
    /\ engine_out' = [engine |-> "generate_fixed_content",
                      candidate |-> GenerateFixedContent(engine_in.original_content,
                                                         engine_in.line_number,
                                                         engine_in.bug_type,
                                                         engine_in.error_type,
                                                         engine_in.message)]
    /\ UNCHANGED <<service_vars, engine_in, run_vars, files>>

\* git_agent.build_branch_name(team_name, leader_name)
BuildBranchNameCall ==
    /\ pc = "engine"
    /\ engine_in.engine = "build_branch_name"
    /\ engine_out = NoCall
    /\ engine_out' = [engine |-> "build_branch_name",
                      branch_name |-> BuildBranchName(engine_in.team_name,
                                                      engine_in.leader_name)]
    /\ UNCHANGED <<service_vars, engine_in, run_vars, files>>

EngineNext ==
    \/ ClassifyCall
    \/ GenerateFixCall
    \/ ApplyFixCall
    \/ CalculateScoreCall
    \/ ValidateBranchNameCall
    \/ CheckoutOrCreateBranchCall
    \/ ParsePytestOutputCall
    \/ ExtractFailuresCall
    \/ EnforceCommitPrefixCall
    \/ CommitAllChangesCall
    \/ CommitFixesCall
    \/ ProposeFixCall
    \/ PushBranchCall
    \/ PushRunBranchCall
    \/ ScanStart
    \/ ScanLine
    \/ GenerateFixedContentCall
    \/ BuildBranchNameCall

EngineSpec == EngineInit /\ [][EngineNext]_vars

\* ----------------------------------------------------- main.py: run_agent
\* a field the request body does not carry
Absent == <<"absent">>

\* a _is_valid_name that accepts every non-empty name
IsValidNameAny(value) == value # <<>>

\* main._is_valid_name: re.match(r"^[a-zA-Z0-9\s]+$", value)
IsValidName(value) ==
    /\ value # <<>>
    /\ \A i \in 1..Len(value) :
          value[i] \in Range(UpperChars) \cup Range(LowerChars) \cup Range(DigitChars)
                       \cup Whitespace

\* RunAgentRequest as FastAPI validates it before run_agent is entered: three
\* required strings, team_name and leader_name of length 1 at least
RequestModelValid(payload) ==
    /\ payload.repo_url # Absent
    /\ payload.team_name # Absent
    /\ payload.leader_name # Absent
    /\ Len(payload.team_name) >= 1
    /\ Len(payload.leader_name) >= 1

\* OrchestratorAgent.start_run up to the branch-name check: TRUE when it
\* raises ValueError("Invalid branch format")
StartRunRejects(payload) ==
    ~ValidateBranchName(BuildBranchName(payload.team_name, payload.leader_name))

\* POST /run-agent up to the call that stores the run: the status code of the
\* rejection, or "200" when start_run goes on to build the RunState
RunAgentChecks(payload) ==
    IF ~RequestModelValid(payload) THEN "422"
    ELSE IF payload.repo_url = <<>> \/ payload.team_name = <<>> \/ payload.leader_name = <<>>
    THEN "400"
    ELSE IF ~IsValidName(payload.team_name) THEN "400"
    ELSE IF ~IsValidName(payload.leader_name) THEN "400"
    ELSE IF StartRunRejects(payload) THEN "400"
    ELSE "200"

\* request bodies sent to POST /run-agent
RequestSamples ==
    {[repo_url |-> <<"f","i","l","e",":","/","/","r">>, team_name |-> <<"R","I","F","T"," ","O","R","G","A","N","I","S","E","R","S">>, leader_name |-> <<"S","a","i","y","a","m"," ","K","u","m","a","r">>],
     [repo_url |-> <<"f","i","l","e",":","/","/","r">>, team_name |-> <<"1","2","3">>, leader_name |-> <<" ">>],
     [repo_url |-> Absent, team_name |-> <<"a">>, leader_name |-> <<"b">>],
     [repo_url |-> <<>>, team_name |-> <<"a">>, leader_name |-> <<"b">>],
     [repo_url |-> <<"f","i","l","e",":","/","/","r">>, team_name |-> <<>>, leader_name |-> <<"b">>],
     [repo_url |-> <<"f","i","l","e",":","/","/","r">>, team_name |-> <<"a","-","b">>, leader_name |-> <<"b">>],
     [repo_url |-> <<"f","i","l","e",":","/","/","r">>, team_name |-> <<"a">>, leader_name |-> <<"b", SharpS>>],
     [repo_url |-> <<"f","i","l","e",":","/","/","r">>, team_name |-> <<"a">>, leader_name |-> Absent]}

\* ------------------------------------- the service: run store and reports
\* one process: threads that call the run store (the request handlers of
\* main.py and the background tasks running execute_run) while each thread's
\* run hands its report to _persist_results
ServiceInit ==
    /\ ServiceIdle
    /\ engine_in = NoCall
    /\ engine_out = NoCall
    /\ pc = "service"
    /\ retry_limit = 1
    /\ repo_url = "file"
    /\ status = RUNNING
    /\ finished = FALSE
    /\ results = NewResults(1)
    /\ iteration = 0
    /\ test_result = [passed |-> FALSE, failures |-> <<>>]
    /\ fidx = 0
    /\ fixes_applied = 0
    /\ ci_status = "none"
    /\ files = InitialTree
    /\ clock = 0
    /\ deadline = 0
    /\ last_poll = NoPoll
    /\ persisted = NothingPersisted
    /\ calls = [tests |-> 0, fixes |-> 0, commits |-> 0, created |-> 0, pushes |-> 0,
                polls |-> 0]
    /\ test_log = <<>>
    /\ at_raise = NoRaise
    /\ since_fix = [tests_passed |-> TRUE, ci_passed |-> TRUE]
    /\ ci_iter = 0

\* a lock that never makes anyone wait
LockFreeAlways(lock) == TRUE

\* threading.Lock.acquire() returns: the lock is not held
LockFree(lock) == lock = "free"

\* a thread calls run_store.get(run_id)
CallGet(t) ==
    /\ st_pc[t] = "idle"
    /\ \E r \in RunIds : st_op' = [st_op EXCEPT ![t] = [op |-> "get", run_id |-> r]]
    /\ st_pc' = [st_pc EXCEPT ![t] = "wait"]
    /\ st_ret' = [st_ret EXCEPT ![t] = "none"]
    /\ UNCHANGED <<st_runs, st_lock, st_done, disk, disk_writers, st_req, scheduled, engine_vars, run_vars, files>>

\* a thread calls run_store.upsert(run_state)
CallUpsert(t) ==
    /\ st_pc[t] = "idle"
    /\ \E r \in RunIds, s \in RunStates :
          st_op' = [st_op EXCEPT ![t] = [op |-> "upsert", run_id |-> r, run_state |-> s]]
    /\ st_pc' = [st_pc EXCEPT ![t] = "wait"]
    /\ st_ret' = [st_ret EXCEPT ![t] = "none"]
    /\ UNCHANGED <<st_runs, st_lock, st_done, disk, disk_writers, st_req, scheduled, engine_vars, run_vars, files>>

\* `with self._lock:` is entered
Acquire(t) ==
    /\ st_pc[t] = "wait"
    /\ LockFree(st_lock)
    /\ st_lock' = t
    /\ st_pc' = [st_pc EXCEPT ![t] = "locked"]
    /\ UNCHANGED <<st_runs, st_op, st_ret, st_done, disk, disk_writers, st_req, scheduled, engine_vars, run_vars,
                   files>>

\* the statement inside the with-block: `self._runs[run_state.run_id] =
\* run_state` or `return self._runs.get(run_id)`
Access(t) ==
    /\ st_pc[t] = "locked"
    /\ IF st_op[t].op = "upsert"
       THEN /\ st_runs' = [st_runs EXCEPT ![st_op[t].run_id] = st_op[t].run_state]
            /\ UNCHANGED st_ret
       ELSE /\ st_ret' = [st_ret EXCEPT ![t] = st_runs[st_op[t].run_id]]
            /\ UNCHANGED st_runs
    /\ st_pc' = [st_pc EXCEPT ![t] = "unlocking"]
    /\ UNCHANGED <<st_lock, st_op, st_done, disk, disk_writers, st_req, scheduled, engine_vars, run_vars, files>>

\* the with-block is left and the call returns, to start_run and run_agent
\* when they made it
Release(t) ==
    /\ st_pc[t] = "unlocking"
    /\ st_lock' = "free"
    /\ st_done' = IF st_op[t].op = "upsert"
                  THEN [st_done EXCEPT ![st_op[t].run_id] = st_op[t].run_state]
                  ELSE st_done
    /\ st_pc' = [st_pc EXCEPT ![t] = IF st_req[t] = NoRequest THEN "idle" ELSE "schedule"]
    /\ st_op' = [st_op EXCEPT ![t] = Idle]
    /\ UNCHANGED <<st_runs, st_ret, disk, disk_writers, st_req, scheduled, engine_vars, run_vars, files>>

\* the run a thread executes reaches _persist_results (once per run)
CallPersist(t) ==
    /\ st_pc[t] = "idle"
    /\ disk_writers[RunResultFile(RunOf(t))] = {}
    /\ RunOf(t) \notin disk_writers[RootResultFile]
    /\ st_op' = [st_op EXCEPT ![t] = [op |-> "persist", run_id |-> RunOf(t)]]
    /\ st_pc' = [st_pc EXCEPT ![t] = "run_file"]
    /\ UNCHANGED <<st_runs, st_lock, st_ret, st_done, disk, disk_writers, st_req, scheduled, engine_vars,
                   run_vars, files>>

\* run_result_file.write_text(...)
WriteRunFile(t) ==
    /\ st_pc[t] = "run_file"
    /\ LET f == RunResultFile(st_op[t].run_id)
       IN  /\ disk' = [disk EXCEPT ![f] = st_op[t].run_id]
           /\ disk_writers' = [disk_writers EXCEPT ![f] = @ \cup {st_op[t].run_id}]
    /\ st_pc' = [st_pc EXCEPT ![t] = "root_file"]
    /\ UNCHANGED <<st_runs, st_lock, st_op, st_ret, st_done, st_req, scheduled, engine_vars, run_vars, files>>

\* root_result_file.write_text(...) and the return of _persist_results
WriteRootFile(t) ==
    /\ st_pc[t] = "root_file"
    /\ disk' = [disk EXCEPT ![RootResultFile] = st_op[t].run_id]
    /\ disk_writers' = [disk_writers EXCEPT ![RootResultFile] = @ \cup {st_op[t].run_id}]
    /\ st_pc' = [st_pc EXCEPT ![t] = "idle"]
    /\ st_op' = [st_op EXCEPT ![t] = Idle]
    /\ UNCHANGED <<st_runs, st_lock, st_ret, st_done, st_req, scheduled, engine_vars, run_vars, files>>

\* POST /run-agent arrives at a handler thread; the run it may start gets the
\* uuid4 of start_run, an id no earlier run has
ReceiveRequest(t) ==
    /\ st_pc[t] = "idle"
    /\ RunOf(t) \notin scheduled
    /\ \E payload \in RequestSamples : st_req' = [st_req EXCEPT ![t] = payload]
    /\ st_pc' = [st_pc EXCEPT ![t] = "request"]
    /\ st_ret' = [st_ret EXCEPT ![t] = "none"]
    /\ UNCHANGED <<st_runs, st_lock, st_op, st_done, disk, disk_writers, scheduled,
                   engine_vars, run_vars, files>>

\* run_agent up to run_store.upsert(run_state) inside start_run: the request
\* is answered with an error status, or the RunState is built and upsert is
\* called
RunAgent(t) ==
    /\ st_pc[t] = "request"
    /\ LET code == RunAgentChecks(st_req[t])
       IN  IF code # "200"
           THEN /\ st_ret' = [st_ret EXCEPT ![t] = code]
                /\ st_req' = [st_req EXCEPT ![t] = NoRequest]
                /\ st_pc' = [st_pc EXCEPT ![t] = "idle"]
                /\ UNCHANGED st_op
           ELSE /\ \E s \in RunStates :
                      st_op' = [st_op EXCEPT ![t] = [op |-> "upsert", run_id |-> RunOf(t),
                                                     run_state |-> s]]
                /\ st_pc' = [st_pc EXCEPT ![t] = "wait"]
                /\ UNCHANGED <<st_ret, st_req>>
    /\ UNCHANGED <<st_runs, st_lock, st_done, disk, disk_writers, scheduled, engine_vars,
                   run_vars, files>>

\* background_tasks.add_task(orchestrator.execute_run, run_state.run_id,
\* payload) and the response
ScheduleRun(t) ==
    /\ st_pc[t] = "schedule"
    /\ scheduled' = scheduled \cup {RunOf(t)}
    /\ st_ret' = [st_ret EXCEPT ![t] = "200"]
    /\ st_req' = [st_req EXCEPT ![t] = NoRequest]
    /\ st_pc' = [st_pc EXCEPT ![t] = "idle"]
    /\ UNCHANGED <<st_runs, st_lock, st_op, st_done, disk, disk_writers, engine_vars,
                   run_vars, files>>

ServiceNext ==
    \E t \in Threads :
        \/ CallGet(t)
        \/ CallUpsert(t)
        \/ Acquire(t)
        \/ Access(t)
        \/ Release(t)
        \/ CallPersist(t)
        \/ WriteRunFile(t)
        \/ WriteRootFile(t)
        \/ ReceiveRequest(t)
        \/ RunAgent(t)
        \/ ScheduleRun(t)

ServiceSpec == ServiceInit /\ [][ServiceNext]_vars

\* -------------------------------------------------------------- properties
Terminal == {PASSED, FAILED}
Done == pc = "done"

\* C1: once the run status is PASSED or FAILED, no later step of execute_run
\* (rest of the loop body, exception handler, finalization) changes it.
C1_StatusSetOnce == [][(status \in Terminal) => (status' = status)]_vars

\* a run that was marked PASSED and then went through finalization
C1_Witness == Done /\ status = PASSED /\ finished

\* C2: every started run reaches a terminal status with a finalized report,
\* the collaborators returning or raising and the clock advancing.
C2_RunTerminates ==
    <>(Done /\ status \in Terminal /\ results.final_status = status /\ finished)

\* a run that used every iteration and polled CI in each of them
C2_Witness ==
    /\ Done
    /\ retry_limit >= 2
    /\ results.iterations_used = retry_limit
    /\ calls.polls = retry_limit

\* C3: iterations_used never exceeds retry_limit and run_tests is invoked at
\* most retry_limit times.
C3_IterationsBounded ==
    /\ results.iterations_used <= retry_limit
    /\ calls.tests <= retry_limit

\* a run that used its whole budget of at least two iterations
C3_Witness ==
    /\ Done
    /\ retry_limit >= 2
    /\ results.iterations_used = retry_limit
    /\ calls.tests = retry_limit

\* no iteration marked the run PASSED: no PASSED entry in the timeline
NeverMarkedPassed ==
    \A i \in 1..Len(results.ci_timeline) : results.ci_timeline[i].status # PASSED

\* C4: without an exception and without an iteration marking the run PASSED,
\* the run is finalized FAILED with iterations_used = retry_limit.
C4_ExhaustionFails ==
    (Done /\ ~at_raise.raised /\ NeverMarkedPassed)
        => /\ status = FAILED
           /\ results.final_status = FAILED
           /\ results.iterations_used = retry_limit

\* a run of two iterations that ended by exhaustion
C4_Witness ==
    /\ Done
    /\ ~at_raise.raised
    /\ NeverMarkedPassed
    /\ retry_limit = 2
    /\ Len(results.ci_timeline) = 2

\* C5: after a step of execute_run raised, no further iteration or collaborator
\* call of the loop happens, the run is finalized FAILED, and the fixes, commit
\* count, total_failures and timeline recorded before the error stay as they were.
C5_ExceptionPreservesProgress ==
    at_raise.raised
        => /\ calls = at_raise.calls
           /\ results.iterations_used = at_raise.iterations_used
           /\ results.fixes = at_raise.fixes
           /\ results.commits = at_raise.commits
           /\ results.total_failures = at_raise.total_failures
           /\ results.ci_timeline = at_raise.ci_timeline
           /\ pc \in {"except_final", "finally", "done"}
           /\ (pc # "except_final" => results.final_status = FAILED)
           /\ status = FAILED

\* a run that raised in its second iteration, after a fix was committed
C5_Witness ==
    /\ Done
    /\ at_raise.raised
    /\ Len(results.fixes) >= 1
    /\ results.commits >= 1
    /\ Len(results.ci_timeline) >= 1
    /\ results.total_failures >= 1

\* C6: a test run that exits non-zero with no failure record extracted makes
\* run_tests raise; it is the last test run and the run ends FAILED.
C6_ExtractionFailureAborts ==
    \A i \in 1..Len(test_log) :
        test_log[i].nothing_extracted
            => /\ test_log[i].outcome = "raise"
               /\ i = Len(test_log)
               /\ results.iterations_used = i
               /\ pc \in {"except", "except_final", "finally", "done"}
               /\ (Done => status = FAILED /\ results.final_status = FAILED)

\* a run whose second test execution was an extraction failure
C6_Witness ==
    /\ Done
    /\ Len(test_log) = 2
    /\ test_log[2].nothing_extracted

\* C7: for a remote target the status becomes PASSED only in an iteration whose
\* CI poll returned PASSED; when the tests pass and the poll returns another
\* result, a FAILED timeline entry is recorded, the status stays RUNNING and
\* the loop goes on to its next iteration if one remains.
C7_RemotePassNeedsCI ==
    [][/\ (repo_url # "file" /\ status # PASSED /\ status' = PASSED)
            => (ci_status = "PASSED" /\ ci_iter = iteration)
       /\ (repo_url # "file" /\ pc = "ci_result" /\ test_result.passed /\ ci_status # "PASSED")
            => /\ results'.ci_timeline =
                    Append(results.ci_timeline, [iteration |-> iteration, status |-> FAILED])
               /\ status' = RUNNING
               /\ pc' = "loop"
       /\ (pc = "loop" /\ iteration < retry_limit)
            => (pc' = "run_tests" /\ iteration' = iteration + 1)
       /\ (pc = "loop" /\ iteration >= retry_limit) => pc' = "after_loop"]_vars

\* a remote run whose tests passed in iteration 1 with CI failing, and which
\* passed in iteration 2
C7_Witness ==
    /\ repo_url = "github"
    /\ Len(test_log) = 2
    /\ test_log[1].outcome = "pass"
    /\ results.ci_timeline[1] = [iteration |-> 1, status |-> FAILED]
    /\ status = PASSED
    /\ Done

\* the first test execution of a local run passed
LocalFirstPass ==
    /\ repo_url = "file"
    /\ Len(test_log) >= 1
    /\ test_log[1].outcome = "pass"

\* C8: a local run whose first test execution passes ends PASSED after
\* iteration 1 with no fixes, one PASSED timeline entry and no push or poll.
C8_LocalFirstPassEnds ==
    (Done /\ LocalFirstPass)
        => /\ status = PASSED
           /\ results.final_status = PASSED
           /\ results.iterations_used = 1
           /\ results.fixes = <<>>
           /\ results.total_fixes = 0
           /\ results.ci_timeline = <<[iteration |-> 1, status |-> PASSED]>>
           /\ calls.pushes = 0
           /\ calls.polls = 0
           /\ calls.tests = 1

\* such a run, with iterations to spare
C8_Witness == Done /\ LocalFirstPass /\ retry_limit = 2

\* a finished run with retry limit 1 whose only test execution reported the
\* undefined-name error for os, the heuristic having inserted `import os`
OsRunDone ==
    /\ Done
    /\ retry_limit = 1
    /\ test_result = [passed |-> FALSE, failures |-> <<1>>]
    /\ files[AppPy] = CommonImports(<<"o", "s">>) \o <<"\n", "\n">> \o InitialTree[AppPy]

\* C9 as stated: such a run ends FAILED with one FixRecord, FIXED, total_fixes = 1.
C9_Original ==
    OsRunDone
        => /\ status = FAILED
           /\ Len(results.fixes) = 1
           /\ results.fixes[1].status = "FIXED"
           /\ results.total_fixes = 1

\* C9 amended: such a run ends with one FixRecord, FIXED, and total_fixes = 1;
\* it ends PASSED when the CI poll of the iteration returned PASSED and FAILED
\* otherwise.
C9_OsRunOutcome ==
    OsRunDone
        => /\ Len(results.fixes) = 1
           /\ results.fixes[1].status = "FIXED"
           /\ results.fixes[1].bug_type = "IMPORT"
           /\ results.total_fixes = 1
           /\ status = IF ci_iter = 1 /\ ci_status = "PASSED" THEN PASSED ELSE FAILED
           /\ results.final_status = status

\* such a run ending FAILED
C9_Witness == OsRunDone /\ status = FAILED /\ results.commits = 1

\* some fix was applied to a file
SomeFixApplied == \E i \in 1..Len(results.fixes) : results.fixes[i].status = "FIXED"

\* C10 as stated: a run with an applied fix is PASSED only if a test execution
\* after the last applied fix passed.
C10_Original == (status = PASSED /\ SomeFixApplied) => since_fix.tests_passed

\* C10 amended: a run with an applied fix is PASSED only if, after the last
\* applied fix, a test execution passed or the CI poll returned PASSED.
C10_FixConfirmedBeforePass ==
    (status = PASSED /\ SomeFixApplied) => (since_fix.tests_passed \/ since_fix.ci_passed)

\* a run whose fix was confirmed by the test execution of the next iteration
C10_Witness ==
    /\ Done
    /\ status = PASSED
    /\ SomeFixApplied
    /\ since_fix.tests_passed
    /\ ~since_fix.ci_passed

\* number of FixRecords of the report whose status is FIXED
AppliedFixes == Cardinality({i \in 1..Len(results.fixes) : results.fixes[i].status = "FIXED"})

\* C11: at finalization results.total_fixes equals the number of FixRecords
\* whose status is FIXED; a failure that got no fix or a rejected fix does not
\* count.
C11_Original == Done => results.total_fixes = AppliedFixes

PlainFileName(file) == file # <<>> /\ \A k \in 1..Len(file) : file[k] # "\n"

\* C13: for every BugCategory generate_fix either returns a proposal whose
\* strict_output matches the descriptor grammar or raises; called with a
\* category of the enumeration, a plain file name and a line number >= 0 it
\* returns, so the descriptor of every category matches the grammar.
C13_DescriptorMatchesGrammar ==
    engine_out.engine = "generate_fix"
        => /\ ~engine_out.proposal.raises
                => StrictOutputMatches(engine_out.proposal.strict_output)
           /\ (/\ engine_in.bug_type \in BugTypes
               /\ PlainFileName(engine_in.file)
               /\ engine_in.line_number >= 0)
                => ~engine_out.proposal.raises

\* a descriptor returned for TYPE_ERROR at a line number of two digits
C13_Witness ==
    /\ engine_out.engine = "generate_fix"
    /\ ~engine_out.proposal.raises
    /\ engine_in.bug_type = "TYPE_ERROR"
    /\ engine_in.line_number = 12
    /\ engine_in.file = AppPy

\* the phrases of section 4.3 (a)
C14_Phrase(b) ==
    CASE b = "IMPORT" -> <<"a","d","d"," ","t","h","e"," ","m","i","s","s","i","n","g"," ","i","m","p","o","r","t"," ","s","t","a","t","e","m","e","n","t">>
      [] b = "SYNTAX" -> <<"a","d","d"," ","t","h","e"," ","m","i","s","s","i","n","g"," ","c","o","l","o","n"," ","a","t"," ","t","h","e"," ","c","o","r","r","e","c","t"," ","p","o","s","i","t","i","o","n">>
      [] b = "INDENTATION" -> <<"c","o","r","r","e","c","t"," ","t","h","e"," ","i","n","d","e","n","t","a","t","i","o","n">>
      [] b = "TYPE_ERROR" -> <<"c","o","r","r","e","c","t"," ","t","h","e"," ","t","y","p","e"," ","u","s","a","g","e">>
      [] b = "LOGIC" -> <<"c","o","r","r","e","c","t"," ","t","h","e"," ","r","e","t","u","r","n"," ","s","t","a","t","e","m","e","n","t"," ","l","o","g","i","c">>
      [] b = "LINTING" -> <<"r","e","m","o","v","e"," ","t","h","e"," ","u","n","u","s","e","d"," ","i","m","p","o","r","t"," ","s","t","a","t","e","m","e","n","t">>

\* C14: the descriptor depends on (category, file, line) only: each category
\* has its one fixed phrase, and calls that differ only in the failure message
\* return the same strict_output and commit_message.
C14_DescriptorIgnoresMessage ==
    engine_out.engine = "generate_fix"
        => /\ \A m \in MessageSamples :
                GenerateFix(engine_in.file, engine_in.line_number, engine_in.bug_type, m)
                    = engine_out.proposal
           /\ ~engine_out.proposal.raises
                => /\ engine_out.proposal.strict_output
                        = BugTypeValue(engine_in.bug_type) \o <<" ","e","r","r","o","r"," ","i","n"," ">> \o engine_in.file
                            \o <<" ","l","i","n","e"," ">> \o IntStr(engine_in.line_number)
                            \o <<" ", Arrow, " ">> \o <<"F","i","x",":"," ">> \o C14_Phrase(engine_in.bug_type)
                   /\ engine_out.proposal.commit_message
                        = <<"[","A","I","-","A","G","E","N","T","]"," ","F","i","x"," ">> \o Lower(BugTypeValue(engine_in.bug_type))
                            \o <<" ","i","s","s","u","e"," ","i","n"," ">> \o engine_in.file

\* a descriptor returned for LINTING, the failure message being an assertion's
C14_Witness ==
    /\ engine_out.engine = "generate_fix"
    /\ ~engine_out.proposal.raises
    /\ engine_in.bug_type = "LINTING"
    /\ engine_in.message = <<"a","s","s","e","r","t"," ","1"," ","=","="," ","2">>

\* the rules that hold for the arguments of the classifier call, lower-cased
RulesMatched ==
    LET e == Lower(engine_in.error_type)
        m == Lower(engine_in.message)
    IN  {r \in {"IMPORT", "SYNTAX", "INDENTATION", "TYPE_ERROR", "LINTING"} :
            CASE r = "IMPORT" -> ImportRule(e, m)
              [] r = "SYNTAX" -> SyntaxRule(e, m)
              [] r = "INDENTATION" -> IndentationRule(e, m)
              [] r = "TYPE_ERROR" -> TypeErrorRule(e, m)
              [] r = "LINTING" -> LintingRule(e, m)}

\* C15: the classifier returns one of the six BugCategory values for every
\* (errorType, message), the same one on every call, and LOGIC exactly when
\* none of the IMPORT, SYNTAX, INDENTATION, TYPE_ERROR and LINTING rules holds.
C15_ClassifierTotal ==
    engine_out.engine = "classify"
        => /\ engine_out.bug_type \in BugTypes
           /\ engine_out.bug_type = ClassifyBugType(engine_in.error_type, engine_in.message)
           /\ (engine_out.bug_type = "LOGIC") <=> (RulesMatched = {})

\* an assertion failure classified by the fallback
C15_Witness ==
    /\ engine_out.engine = "classify"
    /\ engine_in.error_type = <<"A","s","s","e","r","t","i","o","n","E","r","r","o","r">>
    /\ engine_in.message = <<"a","s","s","e","r","t"," ","1"," ","=","="," ","2">>
    /\ engine_out.bug_type = "LOGIC"

\* position of a category in the priority order of the rules
RulePriority(r) ==
    CASE r = "IMPORT" -> 1
      [] r = "SYNTAX" -> 2
      [] r = "INDENTATION" -> 3
      [] r = "TYPE_ERROR" -> 4
      [] r = "LINTING" -> 5

TargetPresent(x) == x.file \in DOMAIN x.tree
Original(x) == IF TargetPresent(x) THEN x.tree[x.file] ELSE <<>>
Candidate(x) ==
    GenerateFixedContent(Original(x), x.line_number, x.bug_type, x.error_type, x.message)
LineInRange(x) == x.line_number >= 1 /\ x.line_number <= Len(SplitLinesKeep(Original(x)))
ReachedSynthesis(x) == TargetPresent(x) /\ x.io.read_ok /\ LineInRange(x)

\* the candidate is non-empty, differs from the original and parses
CandidateValid(x) ==
    /\ ReachedSynthesis(x)
    /\ Candidate(x) # <<>>
    /\ Candidate(x) # Original(x)
    /\ x.io.parse_ok

\* C17: apply_fix overwrites the target file only when the candidate content
\* is non-empty, differs from the original and parses; in every other outcome
\* (no heuristic matched, candidate unchanged, candidate fails to parse, file
\* missing, line out of range) it returns False and the file is byte-identical
\* to what it was; it returns True only when the file was written.
C17_OverwriteOnlyValid ==
    engine_out.engine = "apply_fix"
        => /\ files # engine_in.tree => CandidateValid(engine_in)
           /\ ~CandidateValid(engine_in)
                => /\ ~engine_out.applied
                   /\ ~engine_out.raises
                   /\ files = engine_in.tree
           /\ engine_out.applied
                => /\ CandidateValid(engine_in)
                   /\ files = [engine_in.tree EXCEPT ![engine_in.file] = Candidate(engine_in)]

\* a candidate that adds `import os` but is rejected by ast.parse: the call
\* returned False and the file is as it was
C17_Witness ==
    /\ engine_out.engine = "apply_fix"
    /\ ReachedSynthesis(engine_in)
    /\ Candidate(engine_in) = <<"i","m","p","o","r","t"," ","o","s","\n","\n">> \o Original(engine_in)
    /\ Original(engine_in) # <<>>
    /\ ~engine_in.io.parse_ok
    /\ ~engine_out.applied
    /\ files = engine_in.tree

\* the read or the write of the target file failed
IOErrorOccurred(x) ==
    /\ TargetPresent(x)
    /\ \/ ~x.io.read_ok
       \/ CandidateValid(x) /\ x.io.write # "ok"

NotInstalled(x) ==
    /\ x.bug_type = "IMPORT"
    /\ Contains(Lower(x.error_type), <<"m","o","d","u","l","e","n","o","t","f","o","u","n","d","e","r","r","o","r">>)

\* what a call with arguments x hands to its caller and to the FixRecord
ReportedOutcome(x) ==
    LET fix == ApplyFix(TargetPresent(x), Original(x), x.line_number, Candidate(x), x.io)
    IN  [applied |-> fix.applied, raises |-> fix.raises, status |-> FixStatusOf(fix.applied)]

\* what the calls report whose transformation was attempted and rejected,
\* the candidate being unchanged or failing to parse
RejectedOutcomes ==
    {ReportedOutcome(x) : x \in {y \in ApplyFixInputs :
        /\ ReachedSynthesis(y)
        /\ Candidate(y) # <<>>
        /\ (Candidate(y) = Original(y) \/ ~y.io.parse_ok)}}

\* C19: for an IMPORT failure caused by a module that is not installed no
\* transformation is attempted, and what apply_fix returns and the FixRecord
\* holds differs from what they hold for a transformation that was attempted
\* and rejected.
C19_Original ==
    (/\ engine_out.engine = "apply_fix"
     /\ NotInstalled(engine_in)
     /\ ReachedSynthesis(engine_in))
        => /\ Candidate(engine_in) = <<>>
           /\ files = engine_in.tree
           /\ ReportedOutcome(engine_in) \notin RejectedOutcomes

\* C20: calculate_score returns base 100, a time bonus of 10 exactly when the
\* elapsed seconds are below 300, a commit penalty of 2 per commit beyond 20,
\* and final = max(0, base + bonus - penalty); score(299, 5) = 110,
\* score(400, 25) = 90, score(10, 0) = 110, and the final score is never
\* negative.
C20_ScoreFormula ==
    engine_out.engine = "calculate_score"
        => LET s == engine_out.score
               t == engine_in.execution_time_seconds
               c == engine_in.commits
               sum == s.base_score + s.time_bonus - s.commit_penalty
           IN  /\ s.base_score = 100
               /\ (t < 300 => s.time_bonus = 10) /\ (t >= 300 => s.time_bonus = 0)
               /\ (c > 20 => s.commit_penalty = 2 * (c - 20))
               /\ (c <= 20 => s.commit_penalty = 0)
               /\ (sum >= 0 => s.final_score = sum) /\ (sum < 0 => s.final_score = 0)
               /\ s.final_score >= 0
               /\ (t = 299 /\ c = 5 => s.final_score = 110)
               /\ (t = 400 /\ c = 25 => s.final_score = 90)
               /\ (t = 10 /\ c = 0 => s.final_score = 110)

\* score(400, 25): no bonus, a penalty of 10
C20_Witness ==
    /\ engine_out.engine = "calculate_score"
    /\ engine_in.execution_time_seconds = 400
    /\ engine_in.commits = 25
    /\ engine_out.score.final_score = 90

\* the score fields of a report, as the breakdown calculate_score returns
ScoreFields(res) ==
    [base_score |-> res.score_base, time_bonus |-> res.score_time_bonus,
     commit_penalty |-> res.score_commit_penalty, final_score |-> res.score]

\* C21: every run that starts executing is finalized exactly once, whichever
\* way it ends: it reaches the end of execute_run, finished_at is set by the
\* one step that leaves the finally block and by no earlier step, and from
\* then on the score fields of the report are the breakdown calculate_score
\* gives for the measured elapsed seconds and the cumulative commit count.
C21_FinalizedOnce ==
    /\ [](finished <=> Done)
    /\ [](Done => ScoreFields(results) =
                     CalculateScore(results.execution_time_seconds, results.commits))
    /\ <>Done

\* a run ended by an exception after one commit, finalized with the bonus
C21_Witness ==
    /\ Done
    /\ finished
    /\ at_raise.raised
    /\ results.commits = 1
    /\ results.execution_time_seconds = 299
    /\ results.score = 110

\* C22: the report is emitted only by finalization and exactly once per run:
\* _persist_results has been called once when the run is over and never
\* before, no file of the report is written without that call or more than
\* once, the call is made by the step that leaves the finally block with the
\* status already PASSED or FAILED, and the status does not change once the
\* report has been emitted.
C22_ReportEmittedOnce ==
    /\ [](persisted.emitted = IF Done THEN 1 ELSE 0)
    /\ [](/\ persisted.run_file <= persisted.emitted
          /\ persisted.root_file <= persisted.run_file)
    /\ [][(persisted' # persisted) =>
             (pc = "finally" /\ pc' = "done" /\ status \in Terminal /\ status' = status)]_vars
    /\ [][(persisted.emitted > 0) => (status' = status)]_vars

\* a run that passed remotely after a fix and whose report reached both files
C22_Witness ==
    /\ Done
    /\ status = PASSED
    /\ results.commits = 1
    /\ persisted = [emitted |-> 1, run_file |-> 1, root_file |-> 1]

\* the fields of a RunState a status reader is served: run_state.results and
\* whether finished_at is set (main.py, /run-status)
ReaderView == <<results, finished>>

\* C26 as stated: once the status is PASSED or FAILED no field of the
\* RunState changes any more, so a reader that saw the terminal status sees
\* the same final_status, CI timeline, total_fixes, score fields and
\* finished_at on every later read.
C26_Original ==
    [][(status \in Terminal) => (ReaderView' = ReaderView)]_vars

\* C28: poll_workflow_status returns PASSED only for a workflow run it
\* fetched before its deadline with status completed and conclusion success;
\* while it finds no run or a queued / in-progress one it sleeps the poll
\* interval and checks again; and when the deadline has passed it returns
\* FAILED: a timeout is neither PASSED nor an exception.
C28_PollVerdict ==
    /\ []((pc = "ci_result" /\ ci_status = "PASSED") =>
             /\ last_poll.kind = "fetched"
             /\ last_poll.run = <<"completed", "success">>
             /\ last_poll.at < last_poll.deadline)
    /\ []((pc = "ci_result" /\ last_poll.kind = "timeout") =>
             /\ ci_status = "FAILED"
             /\ last_poll.at >= last_poll.deadline)
    /\ [][(pc = "poll_fetch" /\ pc' # "except") =>
             IF StillPending(last_poll'.run)
             THEN pc' = "poll_sleep" /\ clock' = clock /\ deadline' = deadline
             ELSE pc' = "ci_result"]_vars
    /\ [][(pc = "poll_sleep") =>
             (pc' = "poll_check" /\ clock' = clock + PollInterval /\ deadline' = deadline)]_vars
    /\ [][(pc = "poll_check") =>
             IF clock < deadline THEN pc' = "poll_fetch"
             ELSE pc' = "ci_result" /\ ci_status' = "FAILED"]_vars

\* a poll that found the workflow run in progress until its deadline passed
C28_Witness ==
    /\ pc = "ci_result"
    /\ last_poll.kind = "timeout"
    /\ last_poll.run = <<"in_progress", "none">>
    /\ ci_status = "FAILED"

\* the fix records of the iteration whose failures have all been processed
IterationFixes ==
    LET n == Len(results.fixes)
        k == Len(test_result.failures)
    IN  {results.fixes[i] : i \in (n - k + 1)..n}

\* C29: commit_all_changes is called only in an iteration whose tests failed
\* and in which at least one fix was applied; results.commits counts the
\* calls that returned true, one per such call and nothing for a call that
\* returned false or raised; and it is called at most once per iteration, so
\* commits grows by at most one per iteration.
C29_CommitPerAppliedFix ==
    /\ [](/\ results.commits = calls.created
          /\ calls.commits <= iteration)
    /\ [][(calls'.commits # calls.commits) =>
             /\ pc = "commit"
             /\ ~test_result.passed
             /\ \E fix \in IterationFixes : fix.status = "FIXED"
             /\ calls'.commits = calls.commits + 1]_vars
    /\ [][(results'.commits # results.commits) =>
             /\ calls'.commits = calls.commits + 1
             /\ calls'.created = calls.created + 1
             /\ results'.commits = results.commits + 1]_vars
    /\ [][(iteration' = iteration) => (results'.commits <= results.commits + 1)]_vars

\* a second iteration with an applied fix whose commit found nothing to commit
C29_Witness ==
    /\ pc = "push"
    /\ iteration = 2
    /\ fixes_applied > 0
    /\ calls.commits = 2
    /\ calls.created = 1
    /\ results.commits = 1

\* the part of a branch name before its last seven characters
TeamPart(branch_name) == SubSeq(branch_name, 1, Len(branch_name) - Len(AIFixSuffix))

\* a name of the form ^[A-Z_]+_AI_Fix$, read off the pattern: one or more
\* characters of A..Z and underscore, then the suffix, then nothing
WellFormedBranch(branch_name) ==
    /\ Len(branch_name) > Len(AIFixSuffix)
    /\ SubSeq(branch_name, Len(branch_name) - Len(AIFixSuffix) + 1, Len(branch_name))
          = AIFixSuffix
    /\ \A i \in 1..Len(TeamPart(branch_name)) :
          TeamPart(branch_name)[i] \in Range(UpperChars) \cup {"_"}

\* C30: validate_branch_name accepts a name exactly when it is of the form
\* ^[A-Z_]+_AI_Fix$ and enforce_branch_name raises for every other name, in
\* particular one with a digit, a lowercase letter outside the suffix or any
\* other character; checkout_or_create_branch creates no branch whose name is
\* not of that form.
C30_BranchNameChecked ==
    /\ engine_out.engine = "validate_branch_name" =>
          /\ engine_out.valid <=> WellFormedBranch(engine_in.branch_name)
          /\ engine_out.raises <=> ~WellFormedBranch(engine_in.branch_name)
          /\ (\E i \in 1..Len(engine_in.branch_name) :
                 engine_in.branch_name[i] \notin
                    Range(UpperChars) \cup Range(LowerChars) \cup {"_"})
             => engine_out.raises
          /\ (\E i \in 1..(Len(engine_in.branch_name) - Len(AIFixSuffix)) :
                 engine_in.branch_name[i] \in Range(LowerChars))
             => engine_out.raises
    /\ engine_out.engine = "checkout_or_create_branch" =>
          /\ engine_out.created => WellFormedBranch(engine_in.branch_name)
          /\ ~WellFormedBranch(engine_in.branch_name) =>
                (engine_out.raises /\ engine_out.error = "ValueError")

\* a name that ends with the suffix after a digit is refused by checkout
C30_Witness ==
    /\ engine_out.engine = "checkout_or_create_branch"
    /\ engine_in.branch_name = <<"A","1","_","A","I","_","F","i","x">>
    /\ ~engine_in.existing
    /\ engine_in.git_ok
    /\ engine_out.raises
    /\ ~engine_out.created

\* the positions of a sequence of records that are the first for their key
FirstOfKey(records) ==
    {i \in 1..Len(records) :
        \A k \in 1..(i - 1) : FailureKey(records[k]) # FailureKey(records[i])}

\* C23: the list one parse pass returns holds no two records with the same
\* (normalized file, line): of all the records the pass puts together, in
\* either style, it returns for each location the one put together first and
\* no other, in the order they were put together.
C23_OneRecordPerLocation ==
    engine_out.engine = "parse_pytest_output" =>
        LET failures == engine_out.failures
            reports == engine_out.reports
            first == FirstOfKey(reports)
        IN  /\ \A i, j \in 1..Len(failures) :
                  i # j => FailureKey(failures[i]) # FailureKey(failures[j])
            /\ Len(failures) = Cardinality(first)
            /\ \A i \in first :
                  failures[Cardinality({k \in first : k <= i})] = reports[i]

\* a stack trace reports a.py line 5 before a location line with its error
\* line does: the stack-trace record is the one returned
C23_Witness ==
    /\ engine_out.engine = "parse_pytest_output"
    /\ Len(engine_out.reports) = 2
    /\ engine_out.reports[1].style = "traceback"
    /\ engine_out.reports[2].style = "location"
    /\ FailureKey(engine_out.reports[1]) = FailureKey(engine_out.reports[2])
    /\ engine_out.reports[1].message # engine_out.reports[2].message
    /\ engine_out.failures = <<engine_out.reports[1]>>

\* the lines of an output that carry a file:line location, and those that
\* are an `E   <ErrorType>: <message>` line
LocationLines(lines) == {i \in 1..Len(lines) : SetupLocationMatch(lines[i]).matched}
ErrorLines(lines) ==
    {i \in 1..Len(lines) : IsELine(lines[i]) /\ SetupErrorMatch(lines[i]).matched}

\* the smallest element of a non-empty set of positions
First(positions) == CHOOSE i \in positions : \A k \in positions : i <= k

\* C24 as stated: for exit code 4 and an output with a file:line location,
\* extraction returns exactly one record, with the file and line of the first
\* file:line match and the error type and message of the first
\* `E   <ErrorType>: <message>` line, the error type being ImportError when
\* there is no such line.
C24_Original ==
    (/\ engine_out.engine = "extract_failures"
     /\ engine_in.returncode = 4
     /\ LocationLines(SplitOn(engine_in.output, "\n")) # {}) =>
        LET lines == SplitOn(engine_in.output, "\n")
            location == SetupLocationMatch(lines[First(LocationLines(lines))])
            errors == ErrorLines(lines)
        IN  /\ ~engine_out.raises
            /\ Len(engine_out.failures) = 1
            /\ engine_out.failures[1].file
                  = NormalizeFilePath(location.file, engine_in.repo_path)
            /\ engine_out.failures[1].line_number = location.line_number
            /\ IF errors = {}
               THEN engine_out.failures[1].error_type = <<"I","m","p","o","r","t","E","r","r","o","r">>
               ELSE /\ engine_out.failures[1].error_type
                          = SetupErrorMatch(lines[First(errors)]).error_type
                    /\ engine_out.failures[1].message
                          = SetupErrorMatch(lines[First(errors)]).message

\* the threads inside a with-block of the run store
InStore == {t \in Threads : st_pc[t] \in {"locked", "unlocking"}}

\* C25: run-store calls exclude each other and cannot deadlock: at most one
\* thread is inside a with-block, it is the holder of the lock, and the lock
\* is held only by a thread that is inside and so can go on to release it.
\* A get returns the object of the latest completed upsert for its id (none
\* if there was none), and an entry changes only by an upsert for its own id.
C25_StoreCallsSerialized ==
    /\ [](/\ Cardinality(InStore) <= 1
          /\ \A t \in InStore : st_lock = t
          /\ st_lock # "free" => st_lock \in InStore)
    /\ [][\A t \in Threads :
             (st_pc[t] = "locked" /\ st_pc'[t] = "unlocking" /\ st_op[t].op = "get") =>
                st_ret'[t] = st_done[st_op[t].run_id]]_vars
    /\ [][\A r \in RunIds :
             (st_runs'[r] # st_runs[r]) =>
                \E t \in Threads :
                    /\ st_pc[t] = "locked"
                    /\ st_pc'[t] = "unlocking"
                    /\ st_op[t] = [op |-> "upsert", run_id |-> r, run_state |-> st_runs'[r]]]_vars

\* a get that waited for an upsert of the other id and then returned the
\* object stored for its own id by an upsert completed before
C25_Witness ==
    /\ st_pc["t1"] = "unlocking"
    /\ st_op["t1"] = [op |-> "get", run_id |-> "r1"]
    /\ st_ret["t1"] = "s1"
    /\ st_done = [r \in RunIds |-> IF r = "r1" THEN "s1" ELSE "s2"]
    /\ st_pc["t2"] = "wait"
    /\ st_op["t2"].op = "upsert"

\* C27 as stated: runs with distinct ids share no mutable state besides the
\* run registry, on disk as in memory; no report file is written by two runs.
C27_Original ==
    \A f \in ReportFiles : Cardinality(disk_writers[f]) <= 1

\* the message starts with the ten characters [AI-AGENT]
HasAgentPrefix(m) == Len(m) >= 10 /\ SubSeq(m, 1, 10) = <<"[","A","I","-","A","G","E","N","T","]">>

\* C31: no commit is created with a message that does not start with
\* [AI-AGENT]: enforce_commit_prefix raises for exactly the messages lacking
\* the prefix; commit_all_changes raises ValueError for them before it opens
\* the repository and commits only under the message it was given; the
\* message execute_run commits under and the commit message of every proposal
\* generate_fix returns carry the prefix, so neither prefix check raises
C31_CommitsCarryPrefix ==
    /\ engine_out.engine = "enforce_commit_prefix" =>
          (engine_out.raises <=> ~HasAgentPrefix(engine_in.commit_message))
    /\ engine_out.engine = "commit_all_changes" =>
          /\ ~HasAgentPrefix(engine_in.commit_message) =>
                /\ engine_out.outcome.raises
                /\ engine_out.outcome.error = "ValueError"
                /\ ~engine_out.outcome.opened
                /\ ~engine_out.outcome.staged
                /\ ~engine_out.outcome.committed
          /\ engine_out.outcome.error = "ValueError" =>
                ~HasAgentPrefix(engine_in.commit_message)
          /\ engine_out.outcome.committed =>
                /\ engine_out.outcome.message = engine_in.commit_message
                /\ HasAgentPrefix(engine_out.outcome.message)
          /\ engine_out.outcome.committed <=>
                /\ HasAgentPrefix(engine_in.commit_message)
                /\ engine_in.dirty
                /\ engine_in.git = "ok"
    /\ engine_out.engine = "commit_fixes" =>
          /\ engine_out.outcome.error # "ValueError"
          /\ engine_out.outcome.committed => HasAgentPrefix(engine_out.outcome.message)
          /\ engine_out.outcome.committed <=>
                /\ engine_in.fixes_applied > 0
                /\ engine_in.dirty
                /\ engine_in.git = "ok"
    /\ engine_out.engine = "propose_fix" =>
          /\ engine_out.outcome.error # "ValueError"
          /\ ~engine_out.outcome.raises => HasAgentPrefix(engine_out.outcome.commit_message)
          /\ engine_in.bug_type \in BugTypes /\ "\n" \notin Range(engine_in.file)
                /\ engine_in.file # <<>>
                => ~engine_out.outcome.raises

\* commit_all_changes was handed a message that holds the prefix but does not
\* start with it, on a dirty tree with a working git, and raised
C31_Witness ==
    /\ engine_out.engine = "commit_all_changes"
    /\ engine_in.commit_message = <<"F","i","x"," ","[","A","I","-","A","G","E","N","T","]">>
    /\ engine_in.dirty
    /\ engine_in.git = "ok"
    /\ engine_out.outcome.raises
    /\ ~engine_out.outcome.committed

\* the name is main or master in some letter case
IsProtectedName(b) == UpperCase(b) \in {<<"M","A","I","N">>, <<"M","A","S","T","E","R">>}

\* C32: push_branch raises ValueError for a protected branch name (main or
\* master in any letter case) without running the push command, it raises
\* ValueError for no other name, a push updates the branch it was asked to
\* push, and the branch a run pushes is never a protected one
C32_ProtectedNeverPushed ==
    /\ engine_out.engine = "push_branch" =>
          /\ IsProtectedName(engine_in.branch_name) =>
                /\ engine_out.outcome.raises
                /\ engine_out.outcome.error = "ValueError"
                /\ ~engine_out.outcome.attempted
                /\ engine_out.outcome.pushed = <<"none">>
          /\ engine_out.outcome.error = "ValueError" => IsProtectedName(engine_in.branch_name)
          /\ engine_out.outcome.pushed # <<"none">> =>
                /\ engine_out.outcome.pushed = <<"branch", engine_in.branch_name>>
                /\ ~IsProtectedName(engine_out.outcome.pushed[2])
          /\ engine_out.outcome.attempted <=>
                /\ ~IsProtectedName(engine_in.branch_name)
                /\ engine_in.token
                /\ engine_in.git # "open_failed"
    /\ engine_out.engine = "push_run_branch" =>
          /\ engine_out.outcome.error # "ValueError"
          /\ engine_out.outcome.attempted
          /\ engine_out.outcome.pushed # <<"none">> =>
                ~IsProtectedName(engine_out.outcome.pushed[2])

\* push_branch was asked to push mAsTeR with a token and a working git, and
\* raised without pushing
C32_Witness ==
    /\ engine_out.engine = "push_branch"
    /\ engine_in.branch_name = <<"m","A","s","T","e","R">>
    /\ engine_in.token
    /\ engine_in.git = "ok"
    /\ engine_out.outcome.raises
    /\ ~engine_out.outcome.attempted

\* every character of the name is a letter, a digit or white space
NameCharsOk(value) ==
    \A i \in 1..Len(value) :
        value[i] \in Range(UpperChars) \cup Range(LowerChars) \cup Range(DigitChars)
                     \cup {" ", "\t", "\n", "\r"}

\* the request misses a field, names a team or leader with a character
\* outside letters, digits and white space, or leads to a branch name that
\* fails validation
ViolatesContract(payload) ==
    \/ \E f \in {"repo_url", "team_name", "leader_name"} : payload[f] \in {Absent, <<>>}
    \/ ~NameCharsOk(payload.team_name)
    \/ ~NameCharsOk(payload.leader_name)
    \/ ~WellFormedBranch(BuildBranchName(payload.team_name, payload.leader_name))

\* C33: a request that violates the input contract is rejected before the run
\* starts: the step that answers it returns an error status and leaves the
\* registry, the thread's store call and the scheduled runs as they were; a
\* thread that is storing or scheduling a run is handling a request that
\* meets the contract; and execute_run is scheduled only by such a thread,
\* after its upsert completed
C33_InvalidRequestRejected ==
    /\ [](\A t \in Threads :
             (st_req[t] # NoRequest /\ st_pc[t] # "request") =>
                 /\ st_pc[t] \in {"wait", "locked", "unlocking", "schedule"}
                 /\ ~ViolatesContract(st_req[t]))
    /\ [][\A t \in Threads :
             (st_pc[t] = "request" /\ st_pc'[t] # "request" /\ ViolatesContract(st_req[t])) =>
                 /\ st_pc'[t] = "idle"
                 /\ st_ret'[t] \in {"400", "422"}
                 /\ st_req'[t] = NoRequest
                 /\ st_op'[t] = Idle
                 /\ st_runs' = st_runs
                 /\ scheduled' = scheduled]_vars
    /\ [][\A r \in scheduled' \ scheduled :
             \E t \in Threads :
                 /\ RunOf(t) = r
                 /\ st_pc[t] = "schedule"
                 /\ ~ViolatesContract(st_req[t])
                 /\ st_done[r] # "none"]_vars

\* one thread has answered a request with status 400 and stored nothing for
\* its run id, while the run of the other thread's request was scheduled
C33_Witness ==
    /\ st_pc["t1"] = "idle"
    /\ st_ret["t1"] = "400"
    /\ st_runs["r1"] = "none"
    /\ scheduled = {"r2"}

\* C34 as stated: the Synthesis Engine never infers the category itself.  For
\* a failure the Classifier put in TYPE_ERROR, LOGIC or LINTING, whatever its
\* error type and message, apply_fix returns False and leaves the file as it
\* was.
C34_Original ==
    (/\ engine_out.engine = "apply_fix"
     /\ engine_in.bug_type \in {"TYPE_ERROR", "LOGIC", "LINTING"}
     /\ engine_in.bug_type = ClassifyBugType(engine_in.error_type, engine_in.message)) =>
        /\ ~engine_out.applied
        /\ files = engine_in.tree

\* the rolling location of the scan, and the value it has when nothing is pending
Pending(st) == <<st.current_file, st.current_line>>
NothingPending == <<<<>>, 0>>

\* the lines of the output being scanned
ScanLines == SplitOn(engine_in.output, "\n")

\* the location a location line names, as the scan keeps it
LocationOf(line) ==
    <<NormalizeFilePath(PytestLocationMatch(line).file, engine_in.repo_path),
      PytestLocationMatch(line).line_number>>

\* positions among old+1..new of the records put together by the location style
LocationReports(reports, old, new) ==
    {k \in (old + 1)..new : reports[k].style = "location"}

\* C35: the pending location of the scan is a one-slot state.  After any
\* number of lines it is empty or the location of the most recent location
\* line, and the records of the location style are no more than the location
\* lines read.  In every pass a location line replaces what was pending; an
\* `E <ErrorType>: <message>` line with a usable location pending puts
\* together exactly one record, from that location and its own type and
\* message, and empties the slot; any other line puts together no record of
\* the location style and leaves the slot as it is.
C35_OneSlotCandidate ==
    /\ [](engine_out.engine = "scan" =>
             LET st == engine_out.st
                 locs == {k \in 1..engine_out.i : PytestLocationMatch(ScanLines[k]).matched}
             IN  /\ Cardinality(LocationReports(st.reports, 0, Len(st.reports)))
                       <= Cardinality(locs)
                 /\ Pending(st) # NothingPending =>
                       /\ locs # {}
                       /\ Pending(st)
                             = LocationOf(ScanLines[CHOOSE k \in locs : \A m \in locs : m <= k]))
    /\ [][(engine_out.engine = "scan" /\ engine_out'.i = engine_out.i + 1) =>
             LET line == ScanLines[engine_out.i + 1]
                 err == PytestErrorMatch(line)
                 before == engine_out.st
                 after == engine_out'.st
                 cand == IF PytestLocationMatch(line).matched THEN LocationOf(line)
                         ELSE Pending(before)
                 new == LocationReports(after.reports, Len(before.reports), Len(after.reports))
             IN  IF err.matched /\ cand[1] # <<>> /\ cand[2] # 0
                 THEN /\ Cardinality(new) = 1
                      /\ \A k \in new :
                            after.reports[k] = [file |-> cand[1], line_number |-> cand[2],
                                                message |-> err.message,
                                                error_type |-> err.error_type,
                                                style |-> "location"]
                      /\ Pending(after) = NothingPending
                 ELSE /\ new = {}
                      /\ Pending(after) = cand]_vars

\* five lines were scanned: an error line that found nothing pending, two
\* location lines, the error line that resolved the second of them and an
\* error line that found the slot emptied; one record was put together
C35_Witness ==
    /\ engine_out.engine = "scan"
    /\ engine_in.output = <<"E"," "," "," ","K","e","y","E","r","r","o","r",":"," ","k","\n","a",".","p","y",":","5",":"," ","i","n"," ","t","\n","b",".","p","y",":","7",":"," ","i","n"," ","u","\n","E"," "," "," ","T","y","p","e","E","r","r","o","r",":"," ","t","\n","E"," "," "," ","V","a","l","u","e","E","r","r","o","r",":"," ","v">>
    /\ engine_out.i = 5
    /\ Len(engine_out.st.reports) = 1
    /\ engine_out.st.reports[1].file = <<"b",".","p","y">>
    /\ engine_out.st.reports[1].error_type = <<"T","y","p","e","E","r","r","o","r">>
    /\ Pending(engine_out.st) = NothingPending

\* the indentation of a line: its leading spaces and tabs
LeadingIndent(line) ==
    Cardinality({i \in 1..Len(line) : \A k \in 1..i : line[k] \in {" ", "\t"}})

WithoutIndent(line) == SubSeq(line, LeadingIndent(line) + 1, Len(line))

\* C36: for an INDENTATION failure at line n > 1 the heuristic candidate is
\* the original with line n alone changed, to as many spaces as the line
\* before it has leading whitespace characters (also when that line is blank
\* or indented with tabs) followed by line n without its own indentation;
\* for n = 1 there is no candidate.
C36_Original ==
    (engine_out.engine = "generate_fixed_content" /\ engine_in.bug_type = "INDENTATION") =>
        LET lines == SplitLinesKeep(engine_in.original_content)
            n == engine_in.line_number
        IN  /\ (n > 1 /\ n <= Len(lines)) =>
                   engine_out.candidate =
                       JoinLines([lines EXCEPT ![n] =
                           Repeat(" ", LeadingIndent(lines[n - 1])) \o WithoutIndent(lines[n])])
            /\ n = 1 => engine_out.candidate = <<>>

\* C37: the CI timeline has one entry per completed iteration, in order.  An
\* entry is only ever appended, and it carries the number of the iteration in
\* progress; a new iteration starts only when every earlier one has its entry.
\* So the iteration numbers are strictly increasing, the timeline is never
\* longer than iterations_used, and on a run that ends without an exception
\* it is exactly as long as iterations_used.
C37_TimelineOnePerIteration ==
    /\ [](LET tl == results.ci_timeline
          IN  /\ \A i, j \in 1..Len(tl) : i < j => tl[i].iteration < tl[j].iteration
              /\ \A i \in 1..Len(tl) : tl[i].iteration \in 1..results.iterations_used
              /\ Len(tl) <= results.iterations_used
              /\ (Done /\ ~at_raise.raised) => Len(tl) = results.iterations_used)
    /\ [][/\ results'.ci_timeline # results.ci_timeline =>
                /\ Len(results'.ci_timeline) = Len(results.ci_timeline) + 1
                /\ SubSeq(results'.ci_timeline, 1, Len(results.ci_timeline)) = results.ci_timeline
                /\ results'.ci_timeline[Len(results'.ci_timeline)].iteration = iteration
                /\ iteration = results.iterations_used
                /\ Len(results.ci_timeline) = iteration - 1
          /\ results'.iterations_used # results.iterations_used =>
                /\ results'.iterations_used = results.iterations_used + 1
                /\ Len(results.ci_timeline) = results.iterations_used]_vars

\* a run of two iterations that ended without an exception, with its two
\* entries numbered 1 and 2
C37_Witness ==
    /\ Done
    /\ ~at_raise.raised
    /\ results.iterations_used = 2
    /\ Len(results.ci_timeline) = 2
    /\ results.ci_timeline[1].iteration = 1
    /\ results.ci_timeline[2].iteration = 2

\* C38: a reader of a run's state never sees status and results.final_status
\* differ.  The run store hands readers the very RunState execute_run is
\* writing, so every state of the run is one a reader can see: the two fields
\* agree in all of them, from creation to finalization.
C38_Original ==
    status = results.final_status

\* C39: in every state of a run results.commits is at most
\* results.iterations_used, which is at most retry_limit.  With a retry_limit
\* of 20 or less no commit count the run can reach is penalised, so the report
\* of a finished run has commit penalty 0 and score 110 or 100.
C39_CommitsWithinIterations ==
    /\ results.commits <= results.iterations_used
    /\ results.iterations_used <= retry_limit
    /\ retry_limit <= 20 =>
          /\ \A c \in 0..20 : \A e \in ElapsedSamples :
                /\ CalculateScore(e, c).commit_penalty = 0
                /\ CalculateScore(e, c).final_score \in {100, 110}
          /\ Done => /\ results.score_commit_penalty = 0
                     /\ results.score \in {100, 110}
                     /\ results.score = CalculateScore(results.execution_time_seconds,
                                                       results.commits).final_score

\* a finished run that committed in each of its two iterations
C39_Witness ==
    /\ Done
    /\ retry_limit = 2
    /\ results.commits = 2
    /\ results.iterations_used = 2
    /\ results.score = 100

\* C40: whatever the team name and the leader name, build_branch_name returns
\* a name that validate_branch_name accepts and that is not a protected branch
\* name, so start_run does not raise "Invalid branch format"; for the team
\* "RIFT ORGANISERS" and the leader "Saiyam Kumar" the name is
\* RIFT_ORGANISERS_SAIYAM_KUMAR_AI_Fix.
C40_BuiltNameValid ==
    engine_out.engine = "build_branch_name" =>
        /\ ValidateBranchName(engine_out.branch_name)
        /\ ~EnsureNotMainBranch(engine_out.branch_name)
        /\ ~StartRunRejects([team_name |-> engine_in.team_name,
                             leader_name |-> engine_in.leader_name])
        /\ (engine_in.team_name = <<"R","I","F","T"," ","O","R","G","A","N","I","S","E","R","S">> /\ engine_in.leader_name = <<"S","a","i","y","a","m"," ","K","u","m","a","r">>)
              => engine_out.branch_name = <<"R","I","F","T","_","O","R","G","A","N","I","S","E","R","S","_","S","A","I","Y","A","M","_","K","U","M","A","R","_","A","I","_","F","i","x">>

\* the name built for a team of digits and a leader holding a space and a digit:
\* both parts lose what is not a letter
C40_Witness ==
    /\ engine_out.engine = "build_branch_name"
    /\ engine_in.team_name = <<"1","2","3">>
    /\ engine_in.leader_name = <<"a","b"," ","c","1">>
    /\ engine_out.branch_name = <<"_","A","B","_","C","_","A","I","_","F","i","x">>

=============================================================================
